---------------------------- MODULE Spec2Model ----------------------------
(***************************************************************************)
(* A model of the AVM transaction core (package avm, vm.go): the batch     *)
(* scheduler (issueTx / FlushTxs / PendingTxs and the timer callback       *)
(* racing for the engine's lock), Shutdown, parseTx and the ledger status  *)
(* it writes, and the asset -> feature-extension cache of verifyFxUsage.   *)
(***************************************************************************)
EXTENDS Integers, Sequences, FiniteSets, TLC

(***************************************************************************)
(* Program constants.                                                      *)
(***************************************************************************)
batchSize == 30

assetToFxCacheSize == 1024

(***************************************************************************)
(* Bounds of the model.                                                    *)
(***************************************************************************)
\* Number of distinct well-formed, valid transactions the stream of Spec submits.
MaxIssue == 31

\* Capacity of the engine's message channel (chosen by the host, not by the VM).
ChanCap == 1

\* Largest feature-extension index in use.
MaxFx == 1

\* Number of enqueues the small ledger scenarios follow.
MaxLedgerIssues == 3

\* Number of enqueues the storage scenarios follow.
MaxStoreIssues == 2

\* Longest UTXO list handed to coin selection.
MaxUTXOs == 2

\* Largest value of an amount.  Amounts are unsigned integers of a fixed
\* width (64 bits in the program, fewer here); safemath.Add64 fails beyond.
MaxAmount == 7

(***************************************************************************)
(* Byte strings and the transactions they decode to.  A byte string is a   *)
(* number; the parser either fails on it or yields a transaction whose ID  *)
(* is the hash of the bytes (collision free, so injective).                *)
(***************************************************************************)
UndecodableBytes == {0}

BadSyntaxBytes == {1}

BadSemanticBytes == {2}

GoodBytes == 3 .. (2 + MaxIssue)

\* The valid transactions the ledger scenarios submit in any order, any number of times.
SmallGoodBytes == {3, 4}

Bytes == UndecodableBytes \cup BadSyntaxBytes \cup BadSemanticBytes \cup GoodBytes

TxIDOf(b) == <<"tx", b>>

NoID == <<>>

\* vm.parser.Parse: the decoded transaction, or an error.
Parse(b) ==
    IF b \in UndecodableBytes
    THEN [err |-> TRUE, id |-> NoID]
    ELSE [err |-> FALSE, id |-> TxIDOf(b)]

\* UniqueTx.SyntacticVerify: the structural check of a decoded transaction.
SyntacticVerify(id) == id \notin {TxIDOf(b) : b \in BadSyntaxBytes}

\* UniqueTx.SemanticVerify: whether the transaction's inputs and operations verify.
SemanticVerify(id) == id \notin {TxIDOf(b) : b \in BadSemanticBytes}

TxIDs == {TxIDOf(b) : b \in Bytes \ UndecodableBytes}

Status == {"Unknown", "Processing", "Accepted", "Rejected"}

\* vm.state.GetStatus on the status table st: Unknown for an ID without an entry.
GetStatus(st, id) == IF id \in DOMAIN st THEN st[id] ELSE "Unknown"

\* vm.state.PutStatus
PutStatus(st, id, s) == [t \in DOMAIN st \cup {id} |-> IF t = id THEN s ELSE st[t]]

\* choices.Status.Decided
Decided(s) == s \in {"Accepted", "Rejected"}

\* choices.Status.Fetched
Fetched(s) == s = "Processing" \/ Decided(s)

(***************************************************************************)
(* Assets.  An asset's ID is the ID of its creation transaction; the       *)
(* creation transaction declares a list of initial states, each naming the *)
(* index of the feature extension it belongs to.  Of the transactions of   *)
(* the model, two create assets: one declares states of extension 0 only,  *)
(* the other states of extensions 0 and 1.                                 *)
(***************************************************************************)
CreateAssetStates ==
    (TxIDOf(3) :> <<[FxIndex |-> 0]>>)
        @@ (TxIDOf(4) :> <<[FxIndex |-> 0], [FxIndex |-> 1], [FxIndex |-> 1]>>)

\* tx.UnsignedTx.(*txs.CreateAssetTx) succeeds
IsCreateAssetTx(id) == id \in DOMAIN CreateAssetStates

\* Registered feature-extension indices (positions in vm.fxs).
FxIDs == 0 .. MaxFx

\* vm.typeToFxIndex: the kind of a credential or operation -> extension index.
\* Kind k <= MaxFx belongs to the extension registered at index k; kind
\* MaxFx + 1 belongs to no registered extension.
typeToFxIndex == [k \in FxIDs |-> k]

Kinds == 0 .. (MaxFx + 1)

(***************************************************************************)
(* UTXOs.  A UTXO locator is <<source transaction ID, output index>>.      *)
(* DeclaredOutputs gives, per transaction, the asset of each output it     *)
(* declares (UniqueTx.UTXOs()); transaction 5 consumes output 0 of         *)
(* transaction 3.                                                          *)
(***************************************************************************)
DeclaredOutputs ==
    (TxIDOf(2) :> <<TxIDOf(3)>>)
        @@ (TxIDOf(3) :> <<TxIDOf(3), TxIDOf(3)>>)
        @@ (TxIDOf(4) :> <<TxIDOf(4)>>)
        @@ (TxIDOf(5) :> <<TxIDOf(3)>>)

\* UniqueTx.UTXOs()
UTXOsOf(id) ==
    IF id \in DOMAIN DeclaredOutputs
    THEN [i \in 1 .. Len(DeclaredOutputs[id]) |->
             [UTXOID |-> <<id, i - 1>>,
              AssetID |-> DeclaredOutputs[id][i],
              Out |-> <<"out", id, i - 1>>]]
    ELSE <<>>

\* The UTXOs a transaction's inputs consume.
Consumes(id) == IF id = TxIDOf(5) THEN {<<TxIDOf(3), 0>>} ELSE {}

\* vm.state.GetUTXO succeeds under status table st: the state holds the
\* outputs of accepted transactions that no accepted transaction has consumed.
HasUTXO(st, u) ==
    /\ GetStatus(st, u[1]) = "Accepted"
    /\ u[2] < Len(UTXOsOf(u[1]))
    /\ \A t \in DOMAIN st : st[t] = "Accepted" => u \notin Consumes(t)

NoUTXO == [UTXOID |-> <<>>, AssetID |-> NoID, Out |-> <<>>]

(***************************************************************************)
(* ids.BitSet, as the set of its bits.                                     *)
(***************************************************************************)
BitSetAdd(bits, i) == bits \cup {i}

BitSetContains(bits, i) == i \in bits

(***************************************************************************)
(* cache.LRU of capacity size, as the sequence of its entries, the most    *)
(* recently used first.                                                    *)
(***************************************************************************)
LRUIndex(c, key) == {i \in 1 .. Len(c) : c[i].key = key}

LRUHas(c, key) == LRUIndex(c, key) # {}

LRUValue(c, key) == c[CHOOSE i \in LRUIndex(c, key) : TRUE].value

LRUWithout(c, key) == SelectSeq(c, LAMBDA e : e.key # key)

\* The cache after Get(key): a hit moves the entry to the front.
LRUGet(c, key) ==
    IF LRUHas(c, key)
    THEN <<[key |-> key, value |-> LRUValue(c, key)]>> \o LRUWithout(c, key)
    ELSE c

\* The cache after Put(key, value): the entry goes to the front, and the least
\* recently used entry is evicted when the cache is full.
LRUPut(c, key, value, size) ==
    LET rest == LRUWithout(c, key)
        kept == IF Len(rest) >= size THEN SubSeq(rest, 1, size - 1) ELSE rest
    IN  <<[key |-> key, value |-> value]>> \o kept

VARIABLES
    timerSet,       \* vm.timer # nil (Initialize has run)
    bootstrapped,   \* vm.bootstrapped
    lock,           \* holder of ctx.Lock: "free", "main" or "timer"
    mainpc,         \* position of the engine/API goroutine
    cbpc,           \* position of the timer's callback goroutine
    timerArmed,     \* a timeout is outstanding on vm.timer
    timerFinished,  \* vm.timer was stopped
    txs,            \* vm.txs
    toEngine,       \* messages in vm.toEngine
    status,         \* vm.state: the status table, transaction ID -> status
    txRecords,      \* vm.state: IDs whose transaction record is stored
    committed,      \* vm.db: the status table and records as of the last Commit
    dbClosed,       \* vm.baseDB was closed
    assetToFxCache, \* vm.assetToFxCache: <<asset ID, bit set>> entries, most recent first
    last,           \* history: the entry point the last step ran, and its result
    flushed,        \* history: outcome of the FlushTxs the last step ran
    sizeFlushes,    \* history: FlushTxs calls made by issueTx since the last PendingTxs
    enqueued,       \* history: every transaction issueTx appended, in order
    pulled,         \* history: every transaction PendingTxs returned, in order
    signalled,      \* history: FlushTxs has sent a PendingTxs message since the last PendingTxs
    owed            \* history: the engine took a PendingTxs message and has not called PendingTxs since

vars == <<timerSet, bootstrapped, lock, mainpc, cbpc, timerArmed, timerFinished,
          txs, toEngine, status, txRecords, committed, dbClosed, assetToFxCache, last, flushed,
          sizeFlushes, enqueued, pulled, signalled, owed>>

schedVars == <<txs, toEngine, timerArmed>>

ledgerVars == <<status, txRecords, committed>>

histVars == <<sizeFlushes, enqueued, pulled, signalled, owed>>

NoOp == [op |-> "none", b |-> -1, id |-> NoID, err |-> "nil", writes |-> <<>>, ret |-> <<>>]

Did(op, b, id, err, writes, ret) ==
    [op |-> op, b |-> b, id |-> id, err |-> err, writes |-> writes, ret |-> ret]

Init ==
    /\ timerSet = FALSE
    /\ bootstrapped = FALSE
    /\ lock = "free"
    /\ mainpc = "out"
    /\ cbpc = "idle"
    /\ timerArmed = FALSE
    /\ timerFinished = FALSE
    /\ txs = <<>>
    /\ toEngine = <<>>
    /\ status = [t \in {} |-> "Unknown"]
    /\ txRecords = {}
    /\ committed = [status |-> [t \in {} |-> "Unknown"], txRecords |-> {}]
    /\ dbClosed = FALSE
    /\ assetToFxCache = <<>>
    /\ last = NoOp
    /\ flushed = "none"
    /\ sizeFlushes = 0
    /\ enqueued = <<>>
    /\ pulled = <<>>
    /\ signalled = FALSE
    /\ owed = FALSE

(***************************************************************************)
(* The engine's goroutine takes ctx.Lock before calling into the VM.       *)
(***************************************************************************)
MainLock ==
    /\ mainpc = "out"
    /\ lock = "free"
    /\ lock' = "main"
    /\ mainpc' = "in"
    /\ last' = NoOp
    /\ flushed' = "none"
    /\ UNCHANGED <<timerSet, bootstrapped, cbpc, timerFinished, dbClosed, assetToFxCache>>
    /\ UNCHANGED <<schedVars, ledgerVars, histVars>>

MainUnlock ==
    /\ mainpc = "in"
    /\ lock' = "free"
    /\ mainpc' = "out"
    /\ last' = NoOp
    /\ flushed' = "none"
    /\ UNCHANGED <<timerSet, bootstrapped, cbpc, timerFinished, dbClosed, assetToFxCache>>
    /\ UNCHANGED <<schedVars, ledgerVars, histVars>>

\* VM.Initialize: creates the timer (and starts its Dispatch goroutine).
Initialize ==
    /\ mainpc = "in"
    /\ ~timerSet
    /\ timerSet' = TRUE
    /\ last' = Did("Initialize", -1, NoID, "nil", <<>>, <<>>)
    /\ flushed' = "none"
    /\ UNCHANGED <<bootstrapped, lock, mainpc, cbpc, timerFinished, dbClosed, assetToFxCache>>
    /\ UNCHANGED <<schedVars, ledgerVars, histVars>>


(***************************************************************************)
(* VM.SetState (onBootstrapStarted / onNormalOperationsStarted).  fxErr    *)
(* says whether some extension's lifecycle hook returns an error.          *)
(***************************************************************************)
SetState(state, fxErr) ==
    /\ mainpc = "in"
    /\ timerSet
    /\ bootstrapped' =
         IF state = "NormalOp" /\ ~fxErr THEN TRUE ELSE bootstrapped
    /\ last' = Did("SetState", -1, NoID,
                   IF state \notin {"Bootstrapping", "NormalOp"} THEN "ErrUnknownState"
                   ELSE IF fxErr THEN "errFx" ELSE "nil",
                   <<>>, state)
    /\ flushed' = "none"
    /\ UNCHANGED <<timerSet, lock, mainpc, cbpc, timerFinished, dbClosed, assetToFxCache>>
    /\ UNCHANGED <<schedVars, ledgerVars, histVars>>

\* FlushTxs that drops the message on a full channel without setting the timeout again.
FlushTxs_NoRearm(q) ==
    /\ txs' = q
    /\ IF Len(q) # 0
       THEN IF Len(toEngine) < ChanCap
            THEN /\ toEngine' = Append(toEngine, "PendingTxs")
                 /\ timerArmed' = FALSE
                 /\ flushed' = "sent"
            ELSE /\ toEngine' = toEngine
                 /\ timerArmed' = FALSE
                 /\ flushed' = "dropped"
       ELSE /\ toEngine' = toEngine
            /\ timerArmed' = FALSE
            /\ flushed' = "empty"

\* FlushTxs that clears the pending sequence once the signal is sent.
FlushTxs_Clearing(q) ==
    /\ IF Len(q) # 0
       THEN IF Len(toEngine) < ChanCap
            THEN /\ toEngine' = Append(toEngine, "PendingTxs")
                 /\ timerArmed' = FALSE
                 /\ flushed' = "sent"
                 /\ txs' = <<>>
            ELSE /\ toEngine' = toEngine
                 /\ timerArmed' = TRUE
                 /\ flushed' = "dropped"
                 /\ txs' = q
       ELSE /\ toEngine' = toEngine
            /\ timerArmed' = FALSE
            /\ flushed' = "empty"
            /\ txs' = q

(***************************************************************************)
(* VM.FlushTxs, entered with vm.txs = q: cancel the timer; if q is not     *)
(* empty try a non-blocking send of PendingTxs, and on a full channel drop *)
(* the message and set the timeout again.                                  *)
(***************************************************************************)
FlushTxs(q) ==
    /\ txs' = q
    /\ IF Len(q) # 0
       THEN IF Len(toEngine) < ChanCap
            THEN /\ toEngine' = Append(toEngine, "PendingTxs")
                 /\ timerArmed' = FALSE
                 /\ flushed' = "sent"
            ELSE /\ toEngine' = toEngine
                 /\ timerArmed' = TRUE
                 /\ flushed' = "dropped"
       ELSE /\ toEngine' = toEngine
            /\ timerArmed' = FALSE
            /\ flushed' = "empty"

\* issueTx that flushes one transaction late.
issueTx_LateFlush(tx) ==
    LET q == Append(txs, tx) IN
    IF Len(q) = batchSize + 1
    THEN FlushTxs(q)
    ELSE /\ txs' = q
         /\ timerArmed' = IF Len(q) = 1 THEN TRUE ELSE timerArmed
         /\ toEngine' = toEngine
         /\ flushed' = "none"

\* issueTx that flushes at every length from batchSize on.
issueTx_FlushAtLeast(tx) ==
    LET q == Append(txs, tx) IN
    IF Len(q) >= batchSize
    THEN FlushTxs(q)
    ELSE /\ txs' = q
         /\ timerArmed' = IF Len(q) = 1 THEN TRUE ELSE timerArmed
         /\ toEngine' = toEngine
         /\ flushed' = "none"

\* issueTx that sets the timeout at every enqueue that does not flush.
issueTx_ArmAlways(tx) ==
    LET q == Append(txs, tx) IN
    IF Len(q) = batchSize
    THEN FlushTxs(q)
    ELSE /\ txs' = q
         /\ timerArmed' = TRUE
         /\ toEngine' = toEngine
         /\ flushed' = "none"

\* issueTx that never sets the timeout.
issueTx_NoTimeout(tx) ==
    LET q == Append(txs, tx) IN
    IF Len(q) = batchSize
    THEN FlushTxs(q)
    ELSE /\ txs' = q
         /\ timerArmed' = timerArmed
         /\ toEngine' = toEngine
         /\ flushed' = "none"

(***************************************************************************)
(* VM.issueTx: append, then flush at exactly batchSize, or set the timeout *)
(* when the appended transaction is the only one.                          *)
(***************************************************************************)
issueTx(tx) ==
    LET q == Append(txs, tx) IN
    IF Len(q) = batchSize
    THEN FlushTxs(q)
    ELSE /\ txs' = q
         /\ timerArmed' = IF Len(q) = 1 THEN TRUE ELSE timerArmed
         /\ toEngine' = toEngine
         /\ flushed' = "none"

(***************************************************************************)
(* The storage calls parseTx makes for a transaction of Unknown status:    *)
(* PutTx, setStatus(Processing), Commit.  dbErr names the call that fails, *)
(* or is "none".  Writes go to the versioned database (status, txRecords)  *)
(* and reach the committed database only with a successful Commit, which   *)
(* commits everything written so far.                                      *)
(***************************************************************************)
DbOutcomes == {"none", "PutTx", "PutStatus", "Commit"}

\* persist that returns success without committing.
persist_NoCommit(id, dbErr) ==
    LET st == PutStatus(status, id, "Processing")
        recs == txRecords \cup {id}
    IN  CASE dbErr = "PutTx" ->
               [err |-> "errDb", id |-> id, status |-> status, txRecords |-> txRecords,
                committed |-> committed, writes |-> <<"PutTx">>]
          [] dbErr = "PutStatus" ->
               [err |-> "errDb", id |-> id, status |-> status, txRecords |-> recs,
                committed |-> committed, writes |-> <<"PutTx", "PutStatus">>]
          [] OTHER ->
               [err |-> "nil", id |-> id, status |-> st, txRecords |-> recs,
                committed |-> committed, writes |-> <<"PutTx", "PutStatus">>]

persist(id, dbErr) ==
    LET st == PutStatus(status, id, "Processing")
        recs == txRecords \cup {id}
    IN  CASE dbErr = "PutTx" ->
               [err |-> "errDb", id |-> id, status |-> status, txRecords |-> txRecords,
                committed |-> committed, writes |-> <<"PutTx">>]
          [] dbErr = "PutStatus" ->
               [err |-> "errDb", id |-> id, status |-> status, txRecords |-> recs,
                committed |-> committed, writes |-> <<"PutTx", "PutStatus">>]
          [] dbErr = "Commit" ->
               [err |-> "errDb", id |-> id, status |-> st, txRecords |-> recs,
                committed |-> committed, writes |-> <<"PutTx", "PutStatus", "Commit">>]
          [] OTHER ->
               [err |-> "nil", id |-> id, status |-> st, txRecords |-> recs,
                committed |-> [status |-> st, txRecords |-> recs],
                writes |-> <<"PutTx", "PutStatus", "Commit">>]

\* parseTx that persists the transaction whatever its status.
parseTx_AlwaysPersist(b, dbErr) ==
    LET raw == Parse(b) IN
    IF raw.err
    THEN [err |-> "errParse", id |-> NoID, status |-> status,
          txRecords |-> txRecords, committed |-> committed, writes |-> <<>>]
    ELSE IF ~SyntacticVerify(raw.id)
    THEN [err |-> "errSyntactic", id |-> NoID, status |-> status,
          txRecords |-> txRecords, committed |-> committed, writes |-> <<>>]
    ELSE persist(raw.id, dbErr)

\* parseTx that persists a new transaction before the structural check.
parseTx_PersistBeforeVerify(b, dbErr) ==
    LET raw == Parse(b) IN
    IF raw.err
    THEN [err |-> "errParse", id |-> NoID, status |-> status,
          txRecords |-> txRecords, committed |-> committed, writes |-> <<>>]
    ELSE LET p == IF GetStatus(status, raw.id) = "Unknown"
                  THEN persist(raw.id, dbErr)
                  ELSE [err |-> "nil", id |-> raw.id, status |-> status,
                        txRecords |-> txRecords, committed |-> committed,
                        writes |-> <<>>]
         IN  IF p.err = "nil" /\ ~SyntacticVerify(raw.id)
             THEN [p EXCEPT !.err = "errSyntactic", !.id = NoID]
             ELSE p

(***************************************************************************)
(* VM.parseTx on the ledger (status, txRecords): the error, the ID, the    *)
(* ledger afterwards and the storage calls made, in order.                 *)
(***************************************************************************)
parseTx(b, dbErr) ==
    LET raw == Parse(b) IN
    IF raw.err
    THEN [err |-> "errParse", id |-> NoID, status |-> status,
          txRecords |-> txRecords, committed |-> committed, writes |-> <<>>]
    ELSE IF ~SyntacticVerify(raw.id)
    THEN [err |-> "errSyntactic", id |-> NoID, status |-> status,
          txRecords |-> txRecords, committed |-> committed, writes |-> <<>>]
    ELSE IF GetStatus(status, raw.id) = "Unknown"
    THEN persist(raw.id, dbErr)
    ELSE [err |-> "nil", id |-> raw.id, status |-> status,
          txRecords |-> txRecords, committed |-> committed, writes |-> <<>>]

\* UniqueTx.verifyWithoutCacheWrites, given the transaction's status.
verifyWithoutCacheWrites(id, st) ==
    CASE st = "Unknown" -> FALSE
      [] st = "Accepted" -> TRUE
      [] st = "Rejected" -> FALSE
      [] OTHER -> SemanticVerify(id)

\* IssueTx that enqueues the parsed transaction before verifying it.
IssueTx_EnqueueFirst(b, dbErr) ==
    /\ mainpc = "in"
    /\ IF ~bootstrapped
       THEN /\ last' = Did("IssueTx", b, NoID, "errBootstrapping", <<>>, <<>>)
            /\ flushed' = "none"
            /\ UNCHANGED <<schedVars, ledgerVars, histVars>>
       ELSE LET p == parseTx(b, dbErr) IN
            /\ status' = p.status
            /\ txRecords' = p.txRecords
            /\ committed' = p.committed
            /\ IF p.err # "nil"
               THEN /\ last' = Did("IssueTx", b, p.id, p.err, p.writes, <<>>)
                    /\ flushed' = "none"
                    /\ UNCHANGED <<schedVars, histVars>>
               ELSE /\ issueTx(p.id)
                    /\ last' = Did("IssueTx", b, p.id,
                                   IF verifyWithoutCacheWrites(p.id, GetStatus(p.status, p.id))
                                   THEN "nil" ELSE "errVerify",
                                   p.writes, <<>>)
                    /\ enqueued' = Append(enqueued, p.id)
                    /\ sizeFlushes' =
                         IF flushed' # "none" THEN sizeFlushes + 1 ELSE sizeFlushes
                    /\ pulled' = pulled
                    /\ signalled' = (signalled \/ flushed' = "sent")
                    /\ owed' = owed
    /\ UNCHANGED <<timerSet, bootstrapped, lock, mainpc, cbpc, timerFinished, dbClosed, assetToFxCache>>

\* IssueTx that does not look at vm.bootstrapped.
IssueTx_NoBootstrapCheck(b, dbErr) ==
    /\ mainpc = "in"
    /\ LET p == parseTx(b, dbErr) IN
       /\ status' = p.status
       /\ txRecords' = p.txRecords
       /\ committed' = p.committed
       /\ IF p.err # "nil"
          THEN /\ last' = Did("IssueTx", b, p.id, p.err, p.writes, <<>>)
               /\ flushed' = "none"
               /\ UNCHANGED <<schedVars, histVars>>
          ELSE IF ~verifyWithoutCacheWrites(p.id, GetStatus(p.status, p.id))
          THEN /\ last' = Did("IssueTx", b, p.id, "errVerify", p.writes, <<>>)
               /\ flushed' = "none"
               /\ UNCHANGED <<schedVars, histVars>>
          ELSE /\ issueTx(p.id)
               /\ last' = Did("IssueTx", b, p.id, "nil", p.writes, <<>>)
               /\ enqueued' = Append(enqueued, p.id)
               /\ sizeFlushes' =
                    IF flushed' # "none" THEN sizeFlushes + 1 ELSE sizeFlushes
               /\ pulled' = pulled
               /\ signalled' = (signalled \/ flushed' = "sent")
               /\ owed' = owed
    /\ UNCHANGED <<timerSet, bootstrapped, lock, mainpc, cbpc, timerFinished, dbClosed, assetToFxCache>>

(***************************************************************************)
(* VM.IssueTx.                                                             *)
(***************************************************************************)
IssueTx(b, dbErr) ==
    /\ mainpc = "in"
    /\ IF ~bootstrapped
       THEN /\ last' = Did("IssueTx", b, NoID, "errBootstrapping", <<>>, <<>>)
            /\ flushed' = "none"
            /\ UNCHANGED <<schedVars, ledgerVars, histVars>>
       ELSE LET p == parseTx(b, dbErr) IN
            /\ status' = p.status
            /\ txRecords' = p.txRecords
            /\ committed' = p.committed
            /\ IF p.err # "nil"
               THEN /\ last' = Did("IssueTx", b, p.id, p.err, p.writes, <<>>)
                    /\ flushed' = "none"
                    /\ UNCHANGED <<schedVars, histVars>>
               ELSE IF ~verifyWithoutCacheWrites(p.id, GetStatus(p.status, p.id))
               THEN /\ last' = Did("IssueTx", b, p.id, "errVerify", p.writes, <<>>)
                    /\ flushed' = "none"
                    /\ UNCHANGED <<schedVars, histVars>>
               ELSE /\ issueTx(p.id)
                    /\ last' = Did("IssueTx", b, p.id, "nil", p.writes, <<>>)
                    /\ enqueued' = Append(enqueued, p.id)
                    /\ sizeFlushes' =
                         IF flushed' # "none" THEN sizeFlushes + 1 ELSE sizeFlushes
                    /\ pulled' = pulled
                    /\ signalled' = (signalled \/ flushed' = "sent")
                    /\ owed' = owed
    /\ UNCHANGED <<timerSet, bootstrapped, lock, mainpc, cbpc, timerFinished, dbClosed, assetToFxCache>>

\* VM.ParseTx
ParseTx(b, dbErr) ==
    /\ mainpc = "in"
    /\ timerSet
    /\ LET p == parseTx(b, dbErr) IN
       /\ status' = p.status
       /\ txRecords' = p.txRecords
       /\ committed' = p.committed
       /\ last' = Did("ParseTx", b, p.id, p.err, p.writes, <<>>)
    /\ flushed' = "none"
    /\ UNCHANGED <<timerSet, bootstrapped, lock, mainpc, cbpc, timerFinished, dbClosed, assetToFxCache>>
    /\ UNCHANGED <<schedVars, histVars>>

\* PendingTxs that returns the pending transactions without clearing vm.txs.
PendingTxs_KeepTxs ==
    /\ mainpc = "in"
    /\ timerSet
    /\ timerArmed' = FALSE
    /\ txs' = txs
    /\ last' = Did("PendingTxs", -1, NoID, "nil", <<>>, txs)
    /\ pulled' = pulled \o last'.ret
    /\ sizeFlushes' = 0
    /\ signalled' = FALSE
    /\ owed' = FALSE
    /\ flushed' = "none"
    /\ UNCHANGED <<timerSet, bootstrapped, lock, mainpc, cbpc, timerFinished, dbClosed, assetToFxCache>>
    /\ UNCHANGED <<toEngine, enqueued, ledgerVars>>

(***************************************************************************)
(* VM.PendingTxs: cancel the timer, return vm.txs and clear it.            *)
(***************************************************************************)
PendingTxs ==
    /\ mainpc = "in"
    /\ timerSet
    /\ timerArmed' = FALSE
    /\ txs' = <<>>
    /\ last' = Did("PendingTxs", -1, NoID, "nil", <<>>, txs)
    /\ pulled' = pulled \o last'.ret
    /\ sizeFlushes' = 0
    /\ signalled' = FALSE
    /\ owed' = FALSE
    /\ flushed' = "none"
    /\ UNCHANGED <<timerSet, bootstrapped, lock, mainpc, cbpc, timerFinished, dbClosed, assetToFxCache>>
    /\ UNCHANGED <<toEngine, enqueued, ledgerVars>>

(***************************************************************************)
(* The timer.  When the timeout elapses the Dispatch goroutine runs the    *)
(* callback of Initialize: take ctx.Lock, FlushTxs, release.               *)
(***************************************************************************)
TimerFire ==
    /\ timerSet
    /\ timerArmed
    /\ ~timerFinished
    /\ cbpc = "idle"
    /\ cbpc' = "waiting"
    /\ timerArmed' = FALSE
    /\ last' = NoOp
    /\ flushed' = "none"
    /\ UNCHANGED <<timerSet, bootstrapped, lock, mainpc, timerFinished, dbClosed, assetToFxCache>>
    /\ UNCHANGED <<txs, toEngine, ledgerVars, histVars>>

\* A callback that calls FlushTxs without taking ctx.Lock.
TimerAcquire_NoLock ==
    /\ cbpc = "waiting"
    /\ cbpc' = "flushing"
    /\ last' = NoOp
    /\ flushed' = "none"
    /\ UNCHANGED <<timerSet, bootstrapped, lock, mainpc, timerFinished, dbClosed, assetToFxCache>>
    /\ UNCHANGED <<schedVars, ledgerVars, histVars>>

TimerAcquire ==
    /\ cbpc = "waiting"
    /\ lock = "free"
    /\ lock' = "timer"
    /\ cbpc' = "flushing"
    /\ last' = NoOp
    /\ flushed' = "none"
    /\ UNCHANGED <<timerSet, bootstrapped, mainpc, timerFinished, dbClosed, assetToFxCache>>
    /\ UNCHANGED <<schedVars, ledgerVars, histVars>>

TimerFlush ==
    /\ cbpc = "flushing"
    /\ FlushTxs(txs)
    /\ lock' = "free"
    /\ cbpc' = "idle"
    /\ last' = Did("TimerFlush", -1, NoID, "nil", <<>>, <<>>)
    /\ signalled' = (signalled \/ flushed' = "sent")
    /\ UNCHANGED <<timerSet, bootstrapped, mainpc, timerFinished, dbClosed, assetToFxCache>>
    /\ UNCHANGED <<ledgerVars, sizeFlushes, enqueued, pulled, owed>>

\* The consensus engine takes a message off the channel.
EngineRecv ==
    /\ toEngine # <<>>
    /\ toEngine' = Tail(toEngine)
    /\ owed' = (owed \/ Head(toEngine) = "PendingTxs")
    /\ last' = NoOp
    /\ flushed' = "none"
    /\ UNCHANGED <<timerSet, bootstrapped, lock, mainpc, cbpc, timerFinished, dbClosed, assetToFxCache>>
    /\ UNCHANGED <<txs, timerArmed, ledgerVars, sizeFlushes, enqueued, pulled, signalled>>

(***************************************************************************)
(* VM.Shutdown, entered with ctx.Lock held: return at once without a       *)
(* timer; otherwise unlock, timer.Stop() (which marks the timer finished   *)
(* and waits for the Dispatch goroutine to return, hence for a running     *)
(* callback), lock again and close the database.                           *)
(***************************************************************************)
ShutdownNoTimer ==
    /\ mainpc = "in"
    /\ ~timerSet
    /\ last' = Did("Shutdown", -1, NoID, "nil", <<>>, <<>>)
    /\ flushed' = "none"
    /\ UNCHANGED <<timerSet, bootstrapped, lock, mainpc, cbpc, timerFinished, dbClosed, assetToFxCache>>
    /\ UNCHANGED <<schedVars, ledgerVars, histVars>>

\* Shutdown that stops the timer while still holding ctx.Lock.
ShutdownUnlock_KeepLock ==
    /\ mainpc = "in"
    /\ timerSet
    /\ mainpc' = "sd_unlocked"
    /\ last' = NoOp
    /\ flushed' = "none"
    /\ UNCHANGED <<timerSet, bootstrapped, lock, cbpc, timerFinished, dbClosed, assetToFxCache>>
    /\ UNCHANGED <<schedVars, ledgerVars, histVars>>

ShutdownUnlock ==
    /\ mainpc = "in"
    /\ timerSet
    /\ lock' = "free"
    /\ mainpc' = "sd_unlocked"
    /\ last' = NoOp
    /\ flushed' = "none"
    /\ UNCHANGED <<timerSet, bootstrapped, cbpc, timerFinished, dbClosed, assetToFxCache>>
    /\ UNCHANGED <<schedVars, ledgerVars, histVars>>

ShutdownStop ==
    /\ mainpc = "sd_unlocked"
    /\ timerFinished' = TRUE
    /\ mainpc' = "sd_waiting"
    /\ last' = NoOp
    /\ flushed' = "none"
    /\ UNCHANGED <<timerSet, bootstrapped, lock, cbpc, dbClosed, assetToFxCache>>
    /\ UNCHANGED <<schedVars, ledgerVars, histVars>>

ShutdownStopped ==
    /\ mainpc = "sd_waiting"
    /\ cbpc = "idle"
    /\ mainpc' = "sd_stopped"
    /\ last' = NoOp
    /\ flushed' = "none"
    /\ UNCHANGED <<timerSet, bootstrapped, lock, cbpc, timerFinished, dbClosed, assetToFxCache>>
    /\ UNCHANGED <<schedVars, ledgerVars, histVars>>

ShutdownRelock ==
    /\ mainpc = "sd_stopped"
    /\ lock = "free"
    /\ lock' = "main"
    /\ dbClosed' = TRUE
    /\ mainpc' = "closed"
    /\ last' = Did("Shutdown", -1, NoID, "nil", <<>>, <<>>)
    /\ flushed' = "none"
    /\ UNCHANGED <<timerSet, bootstrapped, cbpc, timerFinished, assetToFxCache>>
    /\ UNCHANGED <<schedVars, ledgerVars, histVars>>

Shutdown ==
    \/ ShutdownNoTimer
    \/ ShutdownUnlock
    \/ ShutdownStop
    \/ ShutdownStopped
    \/ ShutdownRelock

(***************************************************************************)
(* The consensus engine's decision on a processing transaction             *)
(* (UniqueTx.Accept / UniqueTx.Reject): the persisted status becomes       *)
(* Accepted or Rejected.  A transaction is accepted only once the UTXOs it *)
(* consumes are in the state.                                              *)
(***************************************************************************)
Decide(id, outcome) ==
    /\ mainpc = "in"
    /\ timerSet
    /\ GetStatus(status, id) = "Processing"
    /\ outcome = "Accepted" => \A u \in Consumes(id) : HasUTXO(status, u)
    /\ status' = PutStatus(status, id, outcome)
    /\ committed' = [status |-> status', txRecords |-> txRecords]
    /\ last' = Did("Decide", -1, id, "nil", <<"PutStatus", "Commit">>, <<>>)
    /\ flushed' = "none"
    /\ UNCHANGED <<timerSet, bootstrapped, lock, mainpc, cbpc, timerFinished, dbClosed, assetToFxCache>>
    /\ UNCHANGED <<schedVars, txRecords, histVars>>

(***************************************************************************)
(* Spec: the scheduler under a stream of submissions.  Valid transactions  *)
(* are named in the order of their first submission; malformed bytes may   *)
(* be submitted at any time.                                               *)
(***************************************************************************)
StreamInputs ==
    UndecodableBytes \cup BadSyntaxBytes \cup
    {b \in GoodBytes :
        /\ GetStatus(status, TxIDOf(b)) = "Unknown"
        /\ \A c \in GoodBytes : c < b => GetStatus(status, TxIDOf(c)) # "Unknown"}

States == {"Bootstrapping", "NormalOp", "Other"}

Next ==
    \/ MainLock
    \/ MainUnlock
    \/ Initialize
    \/ \E s \in States, e \in BOOLEAN : SetState(s, e)
    \/ \E b \in StreamInputs : IssueTx(b, "none")
    \/ PendingTxs
    \/ TimerFire
    \/ TimerAcquire
    \/ TimerFlush
    \/ EngineRecv
    \/ Shutdown

Spec == Init /\ [][Next]_vars


(***************************************************************************)
(* SpecLive: the scheduler of a running VM (no Shutdown) with its          *)
(* scheduling.  An armed timeout fires; its callback gets ctx.Lock (Go's   *)
(* mutex hands the lock to a waiter that has starved) and runs; whoever    *)
(* holds the lock releases it; the engine takes every message off the      *)
(* channel, and after taking a PendingTxs message it locks and calls       *)
(* PendingTxs.                                                             *)
(***************************************************************************)
EnginePull == owed /\ PendingTxs

EngineLock == owed /\ MainLock

NextLive ==
    \/ MainLock
    \/ MainUnlock
    \/ Initialize
    \/ SetState("NormalOp", FALSE)
    \/ \E b \in StreamInputs \cap GoodBytes : IssueTx(b, "none")
    \/ PendingTxs
    \/ TimerFire
    \/ TimerAcquire
    \/ TimerFlush
    \/ EngineRecv

Fairness ==
    /\ WF_vars(TimerFire)
    /\ SF_vars(TimerAcquire)
    /\ WF_vars(TimerFlush)
    /\ WF_vars(MainUnlock)
    /\ WF_vars(EngineRecv)
    /\ SF_vars(EngineLock)
    /\ SF_vars(EnginePull)

SpecLive == Init /\ [][NextLive]_vars /\ Fairness

(***************************************************************************)
(* SpecLedger: parsing, issuing and deciding a few transactions (malformed, *)
(* invalid and valid), whose bytes are submitted in any order and any      *)
(* number of times.                                                        *)
(***************************************************************************)
SmallInputs ==
    UndecodableBytes \cup BadSyntaxBytes \cup BadSemanticBytes \cup SmallGoodBytes

SmallTxIDs == {TxIDOf(b) : b \in SmallGoodBytes}

NextLedger ==
    \/ MainLock
    \/ MainUnlock
    \/ Initialize
    \/ \E s \in States, e \in BOOLEAN : SetState(s, e)
    \/ \E b \in SmallInputs : Len(enqueued) < MaxLedgerIssues /\ IssueTx(b, "none")
    \/ \E b \in SmallInputs : ParseTx(b, "none")
    \/ \E id \in SmallTxIDs, o \in {"Accepted", "Rejected"} : Decide(id, o)
    \/ PendingTxs
    \/ TimerFire
    \/ TimerAcquire
    \/ TimerFlush
    \/ EngineRecv

SpecLedger == Init /\ [][NextLedger]_vars

(***************************************************************************)
(* SpecStore: parsing and issuing over a database whose calls may fail.    *)
(***************************************************************************)
NextStore ==
    \/ MainLock
    \/ MainUnlock
    \/ Initialize
    \/ \E s \in States, e \in BOOLEAN : SetState(s, e)
    \/ \E b \in SmallInputs, f \in DbOutcomes :
          Len(enqueued) < MaxStoreIssues /\ IssueTx(b, f)
    \/ \E b \in SmallInputs, f \in DbOutcomes : ParseTx(b, f)
    \/ \E id \in SmallTxIDs, o \in {"Accepted", "Rejected"} : Decide(id, o)

SpecStore == Init /\ [][NextStore]_vars

(***************************************************************************)
(* VM.verifyFxUsage(fxID, assetID).  The answer is recorded in last.ret,   *)
(* and whether the cache held the asset in last.err ("hit" or "miss").     *)
(***************************************************************************)
\* The bit set the miss path builds from the creation transaction's states.
fxIDsOf(fxID, states) ==
    IF \E i \in 1 .. Len(states) : states[i].FxIndex = fxID
    THEN BitSetAdd({}, fxID)
    ELSE {}

\* verifyFxUsage that caches a false answer for an asset of unknown status.
verifyFxUsageResult_CacheUnknown(fxID, assetID) ==
    IF LRUHas(assetToFxCache, assetID)
    THEN [ret |-> BitSetContains(LRUValue(assetToFxCache, assetID), fxID),
          hit |-> "hit", cache |-> LRUGet(assetToFxCache, assetID)]
    ELSE IF ~Fetched(GetStatus(status, assetID)) \/ ~IsCreateAssetTx(assetID)
    THEN [ret |-> FALSE, hit |-> "miss",
          cache |-> LRUPut(assetToFxCache, assetID, {}, assetToFxCacheSize)]
    ELSE LET fxIDs == fxIDsOf(fxID, CreateAssetStates[assetID]) IN
         [ret |-> BitSetContains(fxIDs, fxID), hit |-> "miss",
          cache |-> LRUPut(assetToFxCache, assetID, fxIDs, assetToFxCacheSize)]

\* The answer of verifyFxUsage, whether it came from the cache, and the cache
\* afterwards.
verifyFxUsageResult(fxID, assetID) ==
    IF LRUHas(assetToFxCache, assetID)
    THEN [ret |-> BitSetContains(LRUValue(assetToFxCache, assetID), fxID),
          hit |-> "hit", cache |-> LRUGet(assetToFxCache, assetID)]
    ELSE IF ~Fetched(GetStatus(status, assetID))
    THEN [ret |-> FALSE, hit |-> "miss", cache |-> assetToFxCache]
    ELSE IF ~IsCreateAssetTx(assetID)
    THEN [ret |-> FALSE, hit |-> "miss", cache |-> assetToFxCache]
    ELSE LET fxIDs == fxIDsOf(fxID, CreateAssetStates[assetID]) IN
         [ret |-> BitSetContains(fxIDs, fxID), hit |-> "miss",
          cache |-> LRUPut(assetToFxCache, assetID, fxIDs, assetToFxCacheSize)]

verifyFxUsage(fxID, assetID) ==
    /\ mainpc = "in"
    /\ timerSet
    /\ LET r == verifyFxUsageResult(fxID, assetID) IN
       /\ assetToFxCache' = r.cache
       /\ last' = Did("verifyFxUsage", fxID, assetID, r.hit, <<>>, <<r.ret>>)
    /\ flushed' = "none"
    /\ UNCHANGED <<timerSet, bootstrapped, lock, mainpc, cbpc, timerFinished, dbClosed>>
    /\ UNCHANGED <<schedVars, ledgerVars, histVars>>

(***************************************************************************)
(* SpecFx: the asset cache queried for every extension index and asset,    *)
(* while the assets' creation transactions are parsed and decided.         *)
(***************************************************************************)
AssetInputs == BadSemanticBytes \cup SmallGoodBytes

AssetIDs == {TxIDOf(b) : b \in AssetInputs}

NextFx ==
    \/ MainLock
    \/ MainUnlock
    \/ Initialize
    \/ \E b \in AssetInputs : ParseTx(b, "none")
    \/ \E id \in AssetIDs, o \in {"Accepted", "Rejected"} : Decide(id, o)
    \/ \E f \in FxIDs, a \in AssetIDs : verifyFxUsage(f, a)

SpecFx == Init /\ [][NextFx]_vars

\* getUTXO that returns success for an output index out of range.
getUTXO_NoRangeCheck(utxoID) ==
    LET inputTx == utxoID[1]
        inputIndex == utxoID[2]
        st == GetStatus(status, inputTx)
        parentUTXOs == UTXOsOf(inputTx)
    IN  IF HasUTXO(status, utxoID)
        THEN [err |-> "nil", utxo |-> parentUTXOs[inputIndex + 1], from |-> "state"]
        ELSE IF ~verifyWithoutCacheWrites(inputTx, st)
        THEN [err |-> "errMissingUTXO", utxo |-> NoUTXO, from |-> "parent"]
        ELSE IF Decided(st)
        THEN [err |-> "errMissingUTXO", utxo |-> NoUTXO, from |-> "parent"]
        ELSE IF Len(parentUTXOs) <= inputIndex
        THEN [err |-> "nil", utxo |-> NoUTXO, from |-> "parent"]
        ELSE [err |-> "nil", utxo |-> parentUTXOs[inputIndex + 1], from |-> "parent"]

\* getUTXO that resolves through a decided source transaction as well.
getUTXO_IgnoreDecided(utxoID) ==
    LET inputTx == utxoID[1]
        inputIndex == utxoID[2]
        st == GetStatus(status, inputTx)
        parentUTXOs == UTXOsOf(inputTx)
    IN  IF HasUTXO(status, utxoID)
        THEN [err |-> "nil", utxo |-> parentUTXOs[inputIndex + 1], from |-> "state"]
        ELSE IF ~verifyWithoutCacheWrites(inputTx, st)
        THEN [err |-> "errMissingUTXO", utxo |-> NoUTXO, from |-> "parent"]
        ELSE IF Len(parentUTXOs) <= inputIndex
        THEN [err |-> "errInvalidUTXO", utxo |-> NoUTXO, from |-> "parent"]
        ELSE [err |-> "nil", utxo |-> parentUTXOs[inputIndex + 1], from |-> "parent"]

(***************************************************************************)
(* VM.getUTXO(utxoID): the UTXO from the state, or else the output the     *)
(* source transaction declares, provided that transaction verifies and is  *)
(* not decided.                                                            *)
(***************************************************************************)
getUTXO(utxoID) ==
    LET inputTx == utxoID[1]
        inputIndex == utxoID[2]
        st == GetStatus(status, inputTx)
        parentUTXOs == UTXOsOf(inputTx)
    IN  IF HasUTXO(status, utxoID)
        THEN [err |-> "nil", utxo |-> parentUTXOs[inputIndex + 1], from |-> "state"]
        ELSE IF ~verifyWithoutCacheWrites(inputTx, st)
        THEN [err |-> "errMissingUTXO", utxo |-> NoUTXO, from |-> "parent"]
        ELSE IF Decided(st)
        THEN [err |-> "errMissingUTXO", utxo |-> NoUTXO, from |-> "parent"]
        ELSE IF Len(parentUTXOs) <= inputIndex
        THEN [err |-> "errInvalidUTXO", utxo |-> NoUTXO, from |-> "parent"]
        ELSE [err |-> "nil", utxo |-> parentUTXOs[inputIndex + 1], from |-> "parent"]

\* VM.getFx(val), val being the kind of a credential or operation.
getFx(val) ==
    IF val \in DOMAIN typeToFxIndex
    THEN [err |-> "nil", fx |-> typeToFxIndex[val]]
    ELSE [err |-> "errUnknownFx", fx |-> 0]

\* verifyTransferOfUTXO that calls the extension without asking whether the
\* asset supports it.
verifyTransferOfUTXO_NoUsageCheck(in, cred, utxo, fxOk) ==
    LET f == getFx(cred) IN
    IF f.err # "nil"
    THEN [err |-> f.err, calls |-> <<>>, cache |-> assetToFxCache]
    ELSE IF utxo.AssetID # in.AssetID
    THEN [err |-> "errAssetIDMismatch", calls |-> <<>>, cache |-> assetToFxCache]
    ELSE [err |-> IF fxOk THEN "nil" ELSE "errFx",
          calls |-> <<[fx |-> f.fx, method |-> "VerifyTransfer",
                       cred |-> cred, utxos |-> <<utxo.Out>>]>>,
          cache |-> assetToFxCache]

(***************************************************************************)
(* VM.verifyTransferOfUTXO(in, cred, utxo).  fxOk says whether the         *)
(* extension accepts the transfer.  The result holds the error, the calls  *)
(* made to extensions and the asset cache afterwards.                      *)
(***************************************************************************)
verifyTransferOfUTXO(in, cred, utxo, fxOk) ==
    LET f == getFx(cred) IN
    IF f.err # "nil"
    THEN [err |-> f.err, calls |-> <<>>, cache |-> assetToFxCache]
    ELSE IF utxo.AssetID # in.AssetID
    THEN [err |-> "errAssetIDMismatch", calls |-> <<>>, cache |-> assetToFxCache]
    ELSE LET u == verifyFxUsageResult(f.fx, in.AssetID) IN
         IF ~u.ret
         THEN [err |-> "errIncompatibleFx", calls |-> <<>>, cache |-> u.cache]
         ELSE [err |-> IF fxOk THEN "nil" ELSE "errFx",
               calls |-> <<[fx |-> f.fx, method |-> "VerifyTransfer",
                            cred |-> cred, utxos |-> <<utxo.Out>>]>>,
               cache |-> u.cache]

\* The result of VM.verifyTransfer(in, cred).
verifyTransferResult(in, cred, fxOk) ==
    LET g == getUTXO(in.UTXOID) IN
    IF g.err # "nil"
    THEN [err |-> g.err, calls |-> <<>>, cache |-> assetToFxCache]
    ELSE verifyTransferOfUTXO(in, cred, g.utxo, fxOk)

\* VM.verifyTransfer as a step of a transaction's semantic verification.
verifyTransfer(in, cred, fxOk) ==
    /\ mainpc = "in"
    /\ timerSet
    /\ LET r == verifyTransferResult(in, cred, fxOk) IN
       /\ assetToFxCache' = r.cache
       /\ last' = Did("verifyTransfer", cred, in.UTXOID[1], r.err, <<>>,
                      [in |-> in, got |-> getUTXO(in.UTXOID), calls |-> r.calls])
    /\ flushed' = "none"
    /\ UNCHANGED <<timerSet, bootstrapped, lock, mainpc, cbpc, timerFinished, dbClosed>>
    /\ UNCHANGED <<schedVars, ledgerVars, histVars>>

\* verifyOperation that does not compare the UTXOs' assets with the operation's.
verifyOperationResult_NoAssetCheck(op, cred, fxOk) ==
    LET numUTXOs == Len(op.UTXOIDs)
        got == [i \in 1 .. numUTXOs |-> getUTXO(op.UTXOIDs[i])]
        failing == {i \in 1 .. numUTXOs : got[i].err # "nil"}
    IN  IF failing # {}
        THEN [err |-> got[CHOOSE i \in failing : \A j \in failing : i <= j].err,
              calls |-> <<>>, cache |-> assetToFxCache]
        ELSE LET f == getFx(op.Op) IN
             IF f.err # "nil"
             THEN [err |-> f.err, calls |-> <<>>, cache |-> assetToFxCache]
             ELSE LET u == verifyFxUsageResult(f.fx, op.AssetID) IN
                  IF ~u.ret
                  THEN [err |-> "errIncompatibleFx", calls |-> <<>>, cache |-> u.cache]
                  ELSE [err |-> IF fxOk THEN "nil" ELSE "errFx",
                        calls |-> <<[fx |-> f.fx, method |-> "VerifyOperation",
                                     cred |-> cred,
                                     utxos |-> [i \in 1 .. numUTXOs |-> got[i].utxo.Out]]>>,
                        cache |-> u.cache]

(***************************************************************************)
(* VM.verifyOperation(op, cred): resolve the operation's UTXOs in order,   *)
(* returning at the first one that is missing or of another asset; then    *)
(* resolve the extension of the operation's kind, check that the asset     *)
(* supports it, and call it with all the outputs.                          *)
(***************************************************************************)
verifyOperationResult(op, cred, fxOk) ==
    LET numUTXOs == Len(op.UTXOIDs)
        got == [i \in 1 .. numUTXOs |-> getUTXO(op.UTXOIDs[i])]
        errAt(i) == IF got[i].err # "nil" THEN got[i].err
                    ELSE IF got[i].utxo.AssetID # op.AssetID THEN "errAssetIDMismatch"
                    ELSE "nil"
        failing == {i \in 1 .. numUTXOs : errAt(i) # "nil"}
    IN  IF failing # {}
        THEN [err |-> errAt(CHOOSE i \in failing : \A j \in failing : i <= j),
              calls |-> <<>>, cache |-> assetToFxCache]
        ELSE LET f == getFx(op.Op) IN
             IF f.err # "nil"
             THEN [err |-> f.err, calls |-> <<>>, cache |-> assetToFxCache]
             ELSE LET u == verifyFxUsageResult(f.fx, op.AssetID) IN
                  IF ~u.ret
                  THEN [err |-> "errIncompatibleFx", calls |-> <<>>, cache |-> u.cache]
                  ELSE [err |-> IF fxOk THEN "nil" ELSE "errFx",
                        calls |-> <<[fx |-> f.fx, method |-> "VerifyOperation",
                                     cred |-> cred,
                                     utxos |-> [i \in 1 .. numUTXOs |-> got[i].utxo.Out]]>>,
                        cache |-> u.cache]

verifyOperation(op, cred, fxOk) ==
    /\ mainpc = "in"
    /\ timerSet
    /\ LET r == verifyOperationResult(op, cred, fxOk) IN
       /\ assetToFxCache' = r.cache
       /\ last' = Did("verifyOperation", cred, op.AssetID, r.err, <<>>,
                      [in |-> op,
                       got |-> [i \in 1 .. Len(op.UTXOIDs) |-> getUTXO(op.UTXOIDs[i])],
                       calls |-> r.calls])
    /\ flushed' = "none"
    /\ UNCHANGED <<timerSet, bootstrapped, lock, mainpc, cbpc, timerFinished, dbClosed>>
    /\ UNCHANGED <<schedVars, ledgerVars, histVars>>

(***************************************************************************)
(* SpecVerify: inputs and operations verified against a ledger in which    *)
(* an invalid transaction (2), an asset creation (3) and a transaction     *)
(* spending one of its outputs (5) are parsed, and 3 and 5 decided; the    *)
(* creation of asset 4 stays unknown.                                      *)
(***************************************************************************)
VerifyInputs == {2, 3, 5}

VerifyTxIDs == {TxIDOf(b) : b \in VerifyInputs}

\* The transactions the engine decides in these scenarios.
DecidedTxIDs == {TxIDOf(3), TxIDOf(5)}

VerifyAssets == {TxIDOf(3), TxIDOf(4)}

\* Locators of declared outputs, and <<tx 3, 2>>, which names no output.
VerifyUTXOIDs ==
    {<<TxIDOf(2), 0>>, <<TxIDOf(3), 0>>, <<TxIDOf(3), 1>>, <<TxIDOf(3), 2>>,
     <<TxIDOf(5), 0>>}

TransferIns == [UTXOID : VerifyUTXOIDs, AssetID : VerifyAssets]

OpUTXOIDLists ==
    {<<>>,
     <<<<TxIDOf(3), 0>>, <<TxIDOf(3), 1>>>>,
     <<<<TxIDOf(3), 1>>, <<TxIDOf(3), 0>>>>,
     <<<<TxIDOf(3), 1>>, <<TxIDOf(4), 0>>>>,
     <<<<TxIDOf(3), 2>>, <<TxIDOf(2), 0>>>>}

Operations == [UTXOIDs : OpUTXOIDLists, AssetID : VerifyAssets, Op : Kinds]

\* The credential presented with an operation; its kind is that of no
\* registered extension (verifyOperation resolves the extension from the
\* operation, not from the credential).
OpCreds == {MaxFx + 1}

NextVerify ==
    \/ MainLock
    \/ Initialize
    \/ \E b \in VerifyInputs : ParseTx(b, "none")
    \/ \E id \in DecidedTxIDs, o \in {"Accepted", "Rejected"} : Decide(id, o)
    \/ \E in \in TransferIns, cred \in Kinds, fxOk \in BOOLEAN :
          verifyTransfer(in, cred, fxOk)
    \/ \E op \in Operations, cred \in OpCreds, fxOk \in BOOLEAN :
          verifyOperation(op, cred, fxOk)

SpecVerify == Init /\ [][NextVerify]_vars

(***************************************************************************)
(* Coin selection: Spend, SpendAll, Mint, SpendNFT and MintNFT.  They are  *)
(* functions of a UTXO list, a keychain and the request; Mint also deletes *)
(* from the caller's amounts map.  An output names its kind, amount, group *)
(* and owner; the keychain, a set of owners, can spend an output at the    *)
(* current time iff it holds the owner.                                    *)
(***************************************************************************)
AssetA == TxIDOf(3)

AssetB == TxIDOf(4)

CoinAssets == {AssetA, AssetB}

CoinUTXO(tx, idx, asset, kind, amt, group, owner) ==
    [UTXOID |-> <<TxIDOf(tx), idx>>, AssetID |-> asset,
     Out |-> [kind |-> kind, Amt |-> amt, GroupID |-> group, owner |-> owner]]

CoinUTXOs ==
    {CoinUTXO(6, 1, AssetA, "secp256k1fx.TransferOutput", 1, 0, "a"),
     CoinUTXO(6, 0, AssetA, "secp256k1fx.TransferOutput", 2, 0, "b"),
     CoinUTXO(7, 0, AssetA, "secp256k1fx.TransferOutput", MaxAmount, 0, "a"),
     CoinUTXO(7, 1, AssetB, "secp256k1fx.TransferOutput", 1, 0, "a"),
     CoinUTXO(8, 1, AssetA, "secp256k1fx.MintOutput", 0, 0, "a"),
     CoinUTXO(8, 0, AssetA, "secp256k1fx.MintOutput", 0, 0, "b"),
     CoinUTXO(9, 1, AssetA, "nftfx.TransferOutput", 0, 0, "a"),
     CoinUTXO(9, 0, AssetA, "nftfx.MintOutput", 0, 1, "a"),
     CoinUTXO(10, 0, AssetA, "nftfx.TransferOutput", 0, 0, "b"),
     CoinUTXO(10, 1, AssetA, "nftfx.MintOutput", 0, 0, "b")}

\* UTXO lists without repetition, of length at most MaxUTXOs.
UTXOLists ==
    UNION {{l \in [1 .. n -> CoinUTXOs] : \A i, j \in 1 .. n : i # j => l[i] # l[j]}
              : n \in 0 .. MaxUTXOs}

Keychains == {{"a"}, {"a", "b"}}

\* Amount requests; an asset that is not a key of the Go map reads as 0.
AmountMaps ==
    {(AssetA :> 0) @@ (AssetB :> 0),
     (AssetA :> 2) @@ (AssetB :> 1),
     (AssetA :> 3) @@ (AssetB :> 0),
     (AssetA :> MaxAmount) @@ (AssetB :> MaxAmount)}

GroupIDs == {0, 1}

Recipient == "to"

\* nil maps and slices, as opposed to empty ones.
Nil == "nil"

\* secp256k1fx.Keychain.Spend(out, time)
kcSpend(kc, out) ==
    IF out.kind \in {"secp256k1fx.TransferOutput", "secp256k1fx.MintOutput"}
           /\ out.owner \in kc
    THEN [err |-> FALSE,
          in |-> [kind |-> IF out.kind = "secp256k1fx.TransferOutput"
                           THEN "secp256k1fx.TransferInput" ELSE "secp256k1fx.Input",
                  Amt |-> out.Amt, SigIndices |-> <<0>>],
          signers |-> <<out.owner>>]
    ELSE [err |-> TRUE, in |-> Nil, signers |-> Nil]

\* secp256k1fx.Keychain.Match(owners, time)
kcMatch(kc, out) ==
    IF out.owner \in kc
    THEN [ok |-> TRUE, indices |-> <<0>>, signers |-> <<out.owner>>]
    ELSE [ok |-> FALSE, indices |-> <<>>, signers |-> <<>>]

\* safemath.Add64
Add64(a, b) ==
    IF a + b > MaxAmount THEN [err |-> TRUE, sum |-> 0] ELSE [err |-> FALSE, sum |-> a + b]

\* The order of UTXO locators: by source transaction ID, then output index.
LocLess(u, v) == u[1][2] < v[1][2] \/ (u[1] = v[1] /\ u[2] < v[2])

(***************************************************************************)
(* djtx.SortTransferableInputsWithSigners and txs.SortOperationsWithSigners *)
(* on the sequence of selected entries [x, keys, loc]: x the input or      *)
(* operation, keys its signers, loc the locator of the UTXO it consumes.   *)
(* Inputs are ordered by locator; operations by their encodings, which for *)
(* the single-UTXO operations of one request differ first in the locator.  *)
(***************************************************************************)
RECURSIVE SortWithSigners(_)
SortWithSigners(sel) ==
    IF sel = <<>> THEN <<>>
    ELSE LET m == CHOOSE i \in 1 .. Len(sel) :
                     \A j \in 1 .. Len(sel) : ~LocLess(sel[j].loc, sel[i].loc)
             rest == [k \in 1 .. Len(sel) - 1 |->
                         IF k < m THEN sel[k] ELSE sel[k + 1]]
         IN  <<sel[m]>> \o SortWithSigners(rest)

Xs(sel) == [i \in 1 .. Len(sel) |-> sel[i].x]

KeysOf(sel) == [i \in 1 .. Len(sel) |-> sel[i].keys]

NoSpent == [a \in CoinAssets |-> 0]

\* Spend's loop with an addition that wraps around instead of failing.
RECURSIVE SpendScan_Wrapping(_, _, _, _)
SpendScan_Wrapping(utxos, kc, amounts, acc) ==
    IF utxos = <<>> THEN acc
    ELSE LET utxo == Head(utxos)
             assetID == utxo.AssetID
             amount == amounts[assetID]
             amountSpent == acc.spent[assetID]
             s == kcSpend(kc, utxo.Out)
         IN  IF amountSpent >= amount
             THEN SpendScan_Wrapping(Tail(utxos), kc, amounts, acc)
             ELSE IF s.err
             THEN SpendScan_Wrapping(Tail(utxos), kc, amounts, acc)
             ELSE IF s.in.kind # "secp256k1fx.TransferInput"
             THEN SpendScan_Wrapping(Tail(utxos), kc, amounts, acc)
             ELSE SpendScan_Wrapping(Tail(utxos), kc, amounts,
                     [spent |-> [acc.spent EXCEPT
                                    ![assetID] = (amountSpent + s.in.Amt) % (MaxAmount + 1)],
                      sel |-> Append(acc.sel,
                                 [x |-> [UTXOID |-> utxo.UTXOID, AssetID |-> assetID,
                                         In |-> s.in],
                                  keys |-> s.signers,
                                  loc |-> utxo.UTXOID]),
                      overflow |-> FALSE])

(***************************************************************************)
(* VM.Spend.  SpendScan is its loop over the UTXOs: acc.spent is           *)
(* amountsSpent, acc.sel the selected inputs with their signers, and       *)
(* acc.overflow says that the loop returned errSpendOverflow.              *)
(***************************************************************************)
RECURSIVE SpendScan(_, _, _, _)
SpendScan(utxos, kc, amounts, acc) ==
    IF utxos = <<>> \/ acc.overflow THEN acc
    ELSE LET utxo == Head(utxos)
             assetID == utxo.AssetID
             amount == amounts[assetID]
             amountSpent == acc.spent[assetID]
             s == kcSpend(kc, utxo.Out)
         IN  IF amountSpent >= amount
             THEN SpendScan(Tail(utxos), kc, amounts, acc)
             ELSE IF s.err
             THEN SpendScan(Tail(utxos), kc, amounts, acc)
             ELSE IF s.in.kind # "secp256k1fx.TransferInput"
             THEN SpendScan(Tail(utxos), kc, amounts, acc)
             ELSE LET n == Add64(amountSpent, s.in.Amt) IN
                  IF n.err
                  THEN [acc EXCEPT !.overflow = TRUE]
                  ELSE SpendScan(Tail(utxos), kc, amounts,
                          [spent |-> [acc.spent EXCEPT ![assetID] = n.sum],
                           sel |-> Append(acc.sel,
                                      [x |-> [UTXOID |-> utxo.UTXOID, AssetID |-> assetID,
                                              In |-> s.in],
                                       keys |-> s.signers,
                                       loc |-> utxo.UTXOID]),
                           overflow |-> FALSE])

\* Spend that sorts the inputs and leaves the signers in selection order.
SpendResults_KeysInPlace(utxos, kc, amounts) ==
    LET acc == SpendScan(utxos, kc, amounts,
                         [spent |-> NoSpent, sel |-> <<>>, overflow |-> FALSE])
        short == {a \in DOMAIN amounts : acc.spent[a] < amounts[a]}
        sorted == SortWithSigners(acc.sel)
    IN  IF acc.overflow
        THEN {[err |-> "errSpendOverflow", msg |-> <<>>,
               amountsSpent |-> Nil, ins |-> Nil, keys |-> Nil]}
        ELSE IF short # {}
        THEN {[err |-> "insufficient funds", msg |-> <<amounts[a], a, acc.spent[a]>>,
               amountsSpent |-> Nil, ins |-> Nil, keys |-> Nil] : a \in short}
        ELSE {[err |-> "nil", msg |-> <<>>,
               amountsSpent |-> acc.spent, ins |-> Xs(sorted), keys |-> KeysOf(acc.sel)]}

\* Spend that returns what it has selected even when an asset is short.
SpendResults_Partial(utxos, kc, amounts) ==
    LET acc == SpendScan(utxos, kc, amounts,
                         [spent |-> NoSpent, sel |-> <<>>, overflow |-> FALSE])
        sorted == SortWithSigners(acc.sel)
    IN  IF acc.overflow
        THEN {[err |-> "errSpendOverflow", msg |-> <<>>,
               amountsSpent |-> Nil, ins |-> Nil, keys |-> Nil]}
        ELSE {[err |-> "nil", msg |-> <<>>,
               amountsSpent |-> acc.spent, ins |-> Xs(sorted), keys |-> KeysOf(sorted)]}

(***************************************************************************)
(* The results Spend can return.  The error for a short asset names the    *)
(* first short asset met when ranging over the amounts map, an order Go    *)
(* leaves unspecified: any short asset can be the one named.               *)
(***************************************************************************)
SpendResults(utxos, kc, amounts) ==
    LET acc == SpendScan(utxos, kc, amounts,
                         [spent |-> NoSpent, sel |-> <<>>, overflow |-> FALSE])
        short == {a \in DOMAIN amounts : acc.spent[a] < amounts[a]}
        sorted == SortWithSigners(acc.sel)
    IN  IF acc.overflow
        THEN {[err |-> "errSpendOverflow", msg |-> <<>>,
               amountsSpent |-> Nil, ins |-> Nil, keys |-> Nil]}
        ELSE IF short # {}
        THEN {[err |-> "insufficient funds", msg |-> <<amounts[a], a, acc.spent[a]>>,
               amountsSpent |-> Nil, ins |-> Nil, keys |-> Nil] : a \in short}
        ELSE {[err |-> "nil", msg |-> <<>>,
               amountsSpent |-> acc.spent, ins |-> Xs(sorted), keys |-> KeysOf(sorted)]}

(***************************************************************************)
(* VM.SpendAll: as Spend, without requested amounts.                       *)
(***************************************************************************)
RECURSIVE SpendAllScan(_, _, _)
SpendAllScan(utxos, kc, acc) ==
    IF utxos = <<>> \/ acc.overflow THEN acc
    ELSE LET utxo == Head(utxos)
             assetID == utxo.AssetID
             amountSpent == acc.spent[assetID]
             s == kcSpend(kc, utxo.Out)
         IN  IF s.err
             THEN SpendAllScan(Tail(utxos), kc, acc)
             ELSE IF s.in.kind # "secp256k1fx.TransferInput"
             THEN SpendAllScan(Tail(utxos), kc, acc)
             ELSE LET n == Add64(amountSpent, s.in.Amt) IN
                  IF n.err
                  THEN [acc EXCEPT !.overflow = TRUE]
                  ELSE SpendAllScan(Tail(utxos), kc,
                          [spent |-> [acc.spent EXCEPT ![assetID] = n.sum],
                           sel |-> Append(acc.sel,
                                      [x |-> [UTXOID |-> utxo.UTXOID, AssetID |-> assetID,
                                              In |-> s.in],
                                       keys |-> s.signers,
                                       loc |-> utxo.UTXOID]),
                           overflow |-> FALSE])

SpendAllResult(utxos, kc) ==
    LET acc == SpendAllScan(utxos, kc,
                            [spent |-> NoSpent, sel |-> <<>>, overflow |-> FALSE])
        sorted == SortWithSigners(acc.sel)
    IN  IF acc.overflow
        THEN [err |-> "errSpendOverflow", msg |-> <<>>,
              amountsSpent |-> Nil, ins |-> Nil, keys |-> Nil]
        ELSE [err |-> "nil", msg |-> <<>>,
              amountsSpent |-> acc.spent, ins |-> Xs(sorted), keys |-> KeysOf(sorted)]

\* The mint operation Mint builds for utxo.
MintOp(utxo, in, amount, to) ==
    [Asset |-> utxo.AssetID,
     UTXOIDs |-> <<utxo.UTXOID>>,
     Op |-> [kind |-> "secp256k1fx.MintOperation",
             MintInput |-> in,
             MintOutput |-> utxo.Out,
             TransferOutput |-> [Amt |-> amount, Threshold |-> 1, Addrs |-> <<to>>]]]

(***************************************************************************)
(* VM.Mint.  MintScan is its loop: acc.amounts is the caller's amounts map *)
(* (an asset deleted from it reads as 0), acc.sel the operations built.    *)
(***************************************************************************)
RECURSIVE MintScan(_, _, _, _)
MintScan(utxos, kc, to, acc) ==
    IF utxos = <<>> THEN acc
    ELSE LET utxo == Head(utxos)
             assetID == utxo.AssetID
             amount == acc.amounts[assetID]
             s == kcSpend(kc, utxo.Out)
         IN  IF amount = 0
             THEN MintScan(Tail(utxos), kc, to, acc)
             ELSE IF utxo.Out.kind # "secp256k1fx.MintOutput"
             THEN MintScan(Tail(utxos), kc, to, acc)
             ELSE IF s.err
             THEN MintScan(Tail(utxos), kc, to, acc)
             ELSE IF s.in.kind # "secp256k1fx.Input"
             THEN MintScan(Tail(utxos), kc, to, acc)
             ELSE MintScan(Tail(utxos), kc, to,
                     [amounts |-> [acc.amounts EXCEPT ![assetID] = 0],
                      sel |-> Append(acc.sel,
                                 [x |-> MintOp(utxo, s.in, amount, to),
                                  keys |-> s.signers,
                                  loc |-> utxo.UTXOID])])

\* Mint that skips the final check of the amounts still required.
MintResult_NoFinalCheck(utxos, kc, amounts, to) ==
    LET acc == MintScan(utxos, kc, to, [amounts |-> amounts, sel |-> <<>>])
        sorted == SortWithSigners(acc.sel)
    IN  [err |-> "nil", ops |-> Xs(sorted), keys |-> KeysOf(sorted),
         amountsAfter |-> acc.amounts]

\* The result of Mint and the caller's amounts map afterwards.
MintResult(utxos, kc, amounts, to) ==
    LET acc == MintScan(utxos, kc, to, [amounts |-> amounts, sel |-> <<>>])
        sorted == SortWithSigners(acc.sel)
    IN  IF \E a \in DOMAIN acc.amounts : acc.amounts[a] > 0
        THEN [err |-> "errAddressesCantMintAsset", ops |-> Nil, keys |-> Nil,
              amountsAfter |-> acc.amounts]
        ELSE [err |-> "nil", ops |-> Xs(sorted), keys |-> KeysOf(sorted),
              amountsAfter |-> acc.amounts]

\* The operation SpendNFT builds for utxo.
SpendNFTOp(utxo, indices, to) ==
    [Asset |-> utxo.AssetID,
     UTXOIDs |-> <<utxo.UTXOID>>,
     Op |-> [kind |-> "nftfx.TransferOperation",
             Input |-> indices,
             Output |-> [GroupID |-> utxo.Out.GroupID, Threshold |-> 1, Addrs |-> <<to>>]]]

\* SpendNFT's loop without the break after the first operation.
RECURSIVE SpendNFTScan_NoBreak(_, _, _, _, _, _)
SpendNFTScan_NoBreak(utxos, kc, assetID, groupID, to, acc) ==
    IF utxos = <<>> THEN acc
    ELSE LET utxo == Head(utxos)
             m == kcMatch(kc, utxo.Out)
         IN  IF utxo.AssetID # assetID
             THEN SpendNFTScan_NoBreak(Tail(utxos), kc, assetID, groupID, to, acc)
             ELSE IF utxo.Out.kind # "nftfx.TransferOutput"
             THEN SpendNFTScan_NoBreak(Tail(utxos), kc, assetID, groupID, to, acc)
             ELSE IF utxo.Out.GroupID # groupID
             THEN SpendNFTScan_NoBreak(Tail(utxos), kc, assetID, groupID, to, acc)
             ELSE IF ~m.ok
             THEN SpendNFTScan_NoBreak(Tail(utxos), kc, assetID, groupID, to, acc)
             ELSE SpendNFTScan_NoBreak(Tail(utxos), kc, assetID, groupID, to,
                     Append(acc, [x |-> SpendNFTOp(utxo, m.indices, to),
                                  keys |-> m.signers,
                                  loc |-> utxo.UTXOID]))

(***************************************************************************)
(* VM.SpendNFT.  SpendNFTScan is its loop, which stops once an operation   *)
(* has been built; acc holds the operations with their signers.            *)
(***************************************************************************)
RECURSIVE SpendNFTScan(_, _, _, _, _, _)
SpendNFTScan(utxos, kc, assetID, groupID, to, acc) ==
    IF utxos = <<>> THEN acc
    ELSE IF Len(acc) > 0 THEN acc
    ELSE LET utxo == Head(utxos)
             m == kcMatch(kc, utxo.Out)
         IN  IF utxo.AssetID # assetID
             THEN SpendNFTScan(Tail(utxos), kc, assetID, groupID, to, acc)
             ELSE IF utxo.Out.kind # "nftfx.TransferOutput"
             THEN SpendNFTScan(Tail(utxos), kc, assetID, groupID, to, acc)
             ELSE IF utxo.Out.GroupID # groupID
             THEN SpendNFTScan(Tail(utxos), kc, assetID, groupID, to, acc)
             ELSE IF ~m.ok
             THEN SpendNFTScan(Tail(utxos), kc, assetID, groupID, to, acc)
             ELSE SpendNFTScan(Tail(utxos), kc, assetID, groupID, to,
                     Append(acc, [x |-> SpendNFTOp(utxo, m.indices, to),
                                  keys |-> m.signers,
                                  loc |-> utxo.UTXOID]))

SpendNFTResult(utxos, kc, assetID, groupID, to) ==
    LET acc == SpendNFTScan(utxos, kc, assetID, groupID, to, <<>>)
        sorted == SortWithSigners(acc)
    IN  IF Len(acc) = 0
        THEN [err |-> "errInsufficientFunds", ops |-> Nil, keys |-> Nil]
        ELSE [err |-> "nil", ops |-> Xs(sorted), keys |-> KeysOf(sorted)]

\* The operation MintNFT builds for utxo.
MintNFTOp(utxo, indices, assetID, payload, to) ==
    [Asset |-> assetID,
     UTXOIDs |-> <<utxo.UTXOID>>,
     Op |-> [kind |-> "nftfx.MintOperation",
             MintInput |-> indices,
             GroupID |-> utxo.Out.GroupID,
             Payload |-> payload,
             Outputs |-> <<[Threshold |-> 1, Addrs |-> <<to>>]>>]]

(***************************************************************************)
(* VM.MintNFT.  MintNFTScan is its loop, which stops once an operation has *)
(* been built.                                                             *)
(***************************************************************************)
RECURSIVE MintNFTScan(_, _, _, _, _, _)
MintNFTScan(utxos, kc, assetID, payload, to, acc) ==
    IF utxos = <<>> THEN acc
    ELSE IF Len(acc) > 0 THEN acc
    ELSE LET utxo == Head(utxos)
             m == kcMatch(kc, utxo.Out)
         IN  IF utxo.AssetID # assetID
             THEN MintNFTScan(Tail(utxos), kc, assetID, payload, to, acc)
             ELSE IF utxo.Out.kind # "nftfx.MintOutput"
             THEN MintNFTScan(Tail(utxos), kc, assetID, payload, to, acc)
             ELSE IF ~m.ok
             THEN MintNFTScan(Tail(utxos), kc, assetID, payload, to, acc)
             ELSE MintNFTScan(Tail(utxos), kc, assetID, payload, to,
                     Append(acc, [x |-> MintNFTOp(utxo, m.indices, assetID, payload, to),
                                  keys |-> m.signers,
                                  loc |-> utxo.UTXOID]))

MintNFTResult(utxos, kc, assetID, payload, to) ==
    LET acc == MintNFTScan(utxos, kc, assetID, payload, to, <<>>)
        sorted == SortWithSigners(acc)
    IN  IF Len(acc) = 0
        THEN [err |-> "errAddressesCantMintAsset", ops |-> Nil, keys |-> Nil]
        ELSE [err |-> "nil", ops |-> Xs(sorted), keys |-> KeysOf(sorted)]

(***************************************************************************)
(* SpecCoin: a caller holding a UTXO list, a keychain and a request calls  *)
(* the coin selection functions, any number of times.  last.ret.args are   *)
(* the caller's variables, last.ret.given their values when the last call  *)
(* was made, and last.ret.out what that call returned.                     *)
(***************************************************************************)
CoinArgs ==
    [utxos : UTXOLists, kc : Keychains, amounts : AmountMaps,
     assetID : {AssetA}, groupID : GroupIDs, payload : {"payload"}, to : {Recipient}]

CoinOps == {"Spend", "SpendAll", "Mint", "SpendNFT", "MintNFT"}

InitCoin ==
    /\ timerSet = TRUE
    /\ bootstrapped = FALSE
    /\ lock = "main"
    /\ mainpc = "in"
    /\ cbpc = "idle"
    /\ timerArmed = FALSE
    /\ timerFinished = FALSE
    /\ txs = <<>>
    /\ toEngine = <<>>
    /\ status = [t \in {} |-> "Unknown"]
    /\ txRecords = {}
    /\ committed = [status |-> [t \in {} |-> "Unknown"], txRecords |-> {}]
    /\ dbClosed = FALSE
    /\ assetToFxCache = <<>>
    /\ \E a \in CoinArgs :
          last = Did("request", -1, NoID, "nil", <<>>, [args |-> a, given |-> a, out |-> Nil])
    /\ flushed = "none"
    /\ sizeFlushes = 0
    /\ enqueued = <<>>
    /\ pulled = <<>>
    /\ signalled = FALSE
    /\ owed = FALSE

\* A coin selection call returning out and leaving the caller's variables as args.
CoinCall(op, args, out) ==
    /\ mainpc = "in"
    /\ timerSet
    /\ last.op \in CoinOps \cup {"request"}
    /\ last' = Did(op, -1, NoID, out.err, <<>>,
                   [args |-> args, given |-> last.ret.args, out |-> out])
    /\ flushed' = "none"
    /\ UNCHANGED <<timerSet, bootstrapped, lock, mainpc, cbpc, timerFinished, dbClosed,
                   assetToFxCache>>
    /\ UNCHANGED <<schedVars, ledgerVars, histVars>>

Spend(utxos, kc, amounts) ==
    \E r \in SpendResults(utxos, kc, amounts) : CoinCall("Spend", last.ret.args, r)

SpendAll(utxos, kc) ==
    CoinCall("SpendAll", last.ret.args, SpendAllResult(utxos, kc))

Mint(utxos, kc, amounts, to) ==
    LET r == MintResult(utxos, kc, amounts, to) IN
    CoinCall("Mint", [last.ret.args EXCEPT !.amounts = r.amountsAfter], r)

SpendNFT(utxos, kc, assetID, groupID, to) ==
    CoinCall("SpendNFT", last.ret.args, SpendNFTResult(utxos, kc, assetID, groupID, to))

MintNFT(utxos, kc, assetID, payload, to) ==
    CoinCall("MintNFT", last.ret.args, MintNFTResult(utxos, kc, assetID, payload, to))

NextCoin ==
    LET a == last.ret.args IN
    \/ Spend(a.utxos, a.kc, a.amounts)
    \/ SpendAll(a.utxos, a.kc)
    \/ Mint(a.utxos, a.kc, a.amounts, a.to)
    \/ SpendNFT(a.utxos, a.kc, a.assetID, a.groupID, a.to)
    \/ MintNFT(a.utxos, a.kc, a.assetID, a.payload, a.to)

SpecCoin == InitCoin /\ [][NextCoin]_vars

(***************************************************************************)
(* Claims about the scheduler, checked under Spec.                         *)
(***************************************************************************)
\* Number of transactions enqueued since the last PendingTxs.
SincePull == Len(enqueued) - Len(pulled)

\* C2 as stated: in every reachable state vm.txs holds at most batchSize
\* transactions.
C2_AtMostBatchSize == Len(txs) <= batchSize

\* C2, amended: until issueTx's size-triggered flush has fired, vm.txs holds
\* fewer than batchSize transactions, and it holds exactly batchSize when that
\* flush fires; nothing caps it afterwards (only PendingTxs empties it).
C2_BoundedBeforeFlush ==
    /\ sizeFlushes = 0 => Len(txs) < batchSize
    /\ (last.op = "IssueTx" /\ flushed # "none") => Len(txs) = batchSize

C2_Witness ==
    /\ last.op = "IssueTx"
    /\ flushed = "sent"
    /\ Len(txs) = batchSize

\* C3 as stated: after 31 transactions issued in succession the pending
\* sequence has restarted from the 31st and a new timeout is armed for it.
C3_FreshWindowAt31 ==
    (last.op = "IssueTx" /\ last.err = "nil" /\ SincePull = batchSize + 1)
        => (txs = <<last.id>> /\ timerArmed)

\* C3, amended: of the transactions enqueued since the last PendingTxs exactly
\* the 30th triggers a flush (one flush, none before, none after); the 31st is
\* appended to the same pending sequence without a flush, and a pending
\* sequence restarts (one element, timeout armed) only after PendingTxs.
C3_OneSizeFlush ==
    /\ sizeFlushes = IF SincePull >= batchSize THEN 1 ELSE 0
    /\ Len(txs) = SincePull
    /\ (last.op = "IssueTx" /\ last.err = "nil") =>
          /\ txs[Len(txs)] = last.id
          /\ flushed # "none" <=> Len(txs) = batchSize
          /\ Len(txs) = 1 => timerArmed

C3_Witness ==
    /\ last.op = "IssueTx"
    /\ last.err = "nil"
    /\ Len(txs) = batchSize + 1
    /\ sizeFlushes = 1
    /\ ~timerArmed

\* C5: FlushTxs cancels the timer and sends only when vm.txs is not empty; on a
\* full channel the message is dropped and the timeout set again; afterwards
\* the timer is armed iff vm.txs is not empty and the message was dropped.
\* FlushTxs never blocks, and an IssueTx whose flush met a full channel still
\* returns the transaction's ID.
C5_FlushNeverBlocks ==
    /\ flushed # "none" =>
          /\ flushed = "empty" <=> txs = <<>>
          /\ timerArmed <=> (txs # <<>> /\ flushed = "dropped")
          /\ flushed = "sent" =>
                (toEngine # <<>> /\ toEngine[Len(toEngine)] = "PendingTxs")
          /\ flushed = "dropped" => Len(toEngine) = ChanCap
          /\ last.op = "IssueTx" => (last.err = "nil" /\ last.id = TxIDOf(last.b))
    /\ cbpc = "flushing" => ENABLED TimerFlush

C5_Witness ==
    /\ last.op = "IssueTx"
    /\ flushed = "dropped"
    /\ timerArmed

\* C6: no deadlock in Shutdown: while Shutdown is between releasing the lock
\* and returning, it or the timer callback can always take a step.
C6_ShutdownNoDeadlock ==
    mainpc \in {"sd_unlocked", "sd_waiting", "sd_stopped"} =>
        ENABLED (ShutdownStop \/ ShutdownStopped \/ ShutdownRelock
                    \/ TimerAcquire \/ TimerFlush)

C6_Witness ==
    /\ mainpc = "sd_waiting"
    /\ cbpc = "waiting"

\* C7: the callback's FlushTxs runs only while the callback holds ctx.Lock, and
\* never while the engine's goroutine is inside a lock-holding entry point.
C7_FlushUnderLock ==
    /\ cbpc = "flushing" => (lock = "timer" /\ mainpc \notin {"in", "closed"})
    /\ mainpc \in {"in", "closed"} => lock = "main"

C7_Witness ==
    /\ cbpc = "flushing"
    /\ mainpc = "sd_waiting"
    /\ txs # <<>>

\* C9: FlushTxs (from issueTx or from the timer, message sent or dropped) and
\* Shutdown leave vm.txs as it is; only PendingTxs removes transactions.
C9_OnlyPendingTxsRemoves ==
    [][/\ (last'.op \in {"TimerFlush", "Shutdown"} \/ mainpc' \notin {"in", "out"})
            => txs' = txs
       /\ (last'.op = "IssueTx" /\ flushed' # "none")
            => txs' = Append(txs, last'.id)
       /\ (Len(txs') < Len(txs) \/ SubSeq(txs', 1, Len(txs)) # txs)
            => last'.op = "PendingTxs"]_vars

C9_Witness ==
    /\ mainpc = "closed"
    /\ Len(txs) >= batchSize
    /\ toEngine # <<>>

\* What the timer callback's FlushTxs does with the pending sequence it finds.
CallbackFlushes ==
    last'.op = "TimerFlush" =>
       /\ txs' = txs
       /\ txs = <<>> => (flushed' = "empty" /\ toEngine' = toEngine)
       /\ txs # <<>> =>
             \/ flushed' = "sent" /\ toEngine' = Append(toEngine, "PendingTxs")
             \/ flushed' = "dropped" /\ toEngine' = toEngine /\ timerArmed'

\* C21 as stated: issueTx sets the timeout exactly when the enqueue takes the
\* pending sequence from empty to one transaction, an enqueue onto a non-empty
\* sequence does not set it again, the enqueue that brings the length to
\* batchSize flushes, and the callback of a fired timeout flushes whatever is
\* pending.  (flushed = "dropped" records that FlushTxs set the timeout again.)
C21_ArmOnlyOnFirst ==
    [][/\ (last'.op = "IssueTx" /\ last'.err = "nil") =>
             /\ txs' = Append(txs, last'.id)
             /\ Len(txs) = 0 => (timerArmed' /\ flushed' = "none")
             /\ Len(txs) > 0 => (flushed' # "dropped" /\ (timerArmed' => timerArmed))
             /\ Len(txs') = batchSize => flushed' \in {"sent", "dropped"}
       /\ CallbackFlushes]_vars

\* C21, amended: an enqueue that takes the pending sequence from empty to one
\* sets the timeout; an enqueue onto a non-empty sequence that does not bring
\* it to batchSize leaves timer and channel as they are; the enqueue that
\* brings it to exactly batchSize flushes at once, timeout armed or not, which
\* cancels the timeout and, when the channel is full, sets it again; and the
\* callback of a fired timeout flushes whatever is pending when it runs.
C21_ArmOnFirstOrDrop ==
    [][/\ (last'.op = "IssueTx" /\ last'.err = "nil") =>
             /\ txs' = Append(txs, last'.id)
             /\ Len(txs) = 0 =>
                   (timerArmed' /\ flushed' = "none" /\ toEngine' = toEngine)
             /\ (Len(txs) > 0 /\ Len(txs') # batchSize) =>
                   (timerArmed' = timerArmed /\ flushed' = "none" /\ toEngine' = toEngine)
             /\ Len(txs') = batchSize =>
                   /\ flushed' \in {"sent", "dropped"}
                   /\ timerArmed' <=> flushed' = "dropped"
       /\ CallbackFlushes]_vars

\* The enqueue that reached batchSize met a full channel: the signal is
\* dropped and the timeout is armed again.
C21_Witness ==
    /\ last.op = "IssueTx"
    /\ last.err = "nil"
    /\ Len(txs) = batchSize
    /\ flushed = "dropped"
    /\ sizeFlushes = 1
    /\ timerArmed
    /\ cbpc = "idle"

(***************************************************************************)
(* Claims about PendingTxs and parseTx, checked under SpecLedger.          *)
(***************************************************************************)
\* C4 as stated: over any sequence of IssueTx and PendingTxs calls no
\* transaction is returned twice by PendingTxs, within a batch or across batches.
C4_NoTxObservedTwice ==
    \A i, j \in 1 .. Len(pulled) : i # j => pulled[i] # pulled[j]

\* C4, amended: PendingTxs cancels the timer and in one step returns the whole
\* pending sequence in enqueue order and leaves it empty; every enqueue is
\* returned exactly once (the returned batches followed by what is pending are
\* the enqueue history).  IssueTx does not deduplicate: a transaction issued
\* twice is enqueued twice and returned twice.
C4_DrainExactlyOnce ==
    /\ pulled \o txs = enqueued
    /\ last.op = "PendingTxs" =>
          /\ txs = <<>>
          /\ ~timerArmed
          /\ Len(last.ret) <= Len(pulled)
          /\ last.ret = SubSeq(pulled, Len(pulled) - Len(last.ret) + 1, Len(pulled))

C4_Witness ==
    /\ last.op = "PendingTxs"
    /\ last.ret # <<>>
    /\ Len(pulled) > Len(last.ret)

\* C10: parsing bytes whose transaction is already known (status not Unknown)
\* yields the transaction with the same ID and the same status and makes no
\* PutTx, no status write and no commit.
C10_ParseIdempotent ==
    [][(/\ last'.op \in {"ParseTx", "IssueTx"}
        /\ last'.err \in {"nil", "errVerify"}
        /\ GetStatus(status, TxIDOf(last'.b)) # "Unknown")
       => /\ last'.id = TxIDOf(last'.b)
          /\ last'.writes = <<>>
          /\ GetStatus(status', last'.id) = GetStatus(status, last'.id)
          /\ status' = status
          /\ txRecords' = txRecords]_vars

C10_Witness ==
    /\ last.op = "ParseTx"
    /\ last.err = "nil"
    /\ last.writes = <<>>
    /\ GetStatus(status, last.id) = "Accepted"

\* C8: an IssueTx that returns an error leaves vm.txs, the timer and the
\* channel as they were and changes no other transaction's status.
C8_IssueErrorFrame ==
    [][(last'.op = "IssueTx" /\ last'.err # "nil") =>
          /\ txs' = txs
          /\ timerArmed' = timerArmed
          /\ toEngine' = toEngine
          /\ \A t \in (DOMAIN status \cup DOMAIN status') \ {last'.id} :
                GetStatus(status', t) = GetStatus(status, t)]_vars

C8_Witness ==
    /\ last.op = "IssueTx"
    /\ last.err = "errVerify"
    /\ txs # <<>>
    /\ timerArmed

\* C26: while vm.bootstrapped is unset, IssueTx returns errBootstrapping and
\* parses, persists and enqueues nothing; only a SetState(NormalOp) in which
\* every extension's Bootstrapped hook succeeded sets the flag; and once set
\* the flag is never cleared, a later SetState(Bootstrapping) included.
C26_BootstrapGate ==
    [][/\ (last'.op = "IssueTx" /\ ~bootstrapped) =>
             /\ last'.err = "errBootstrapping"
             /\ last'.id = NoID
             /\ last'.writes = <<>>
             /\ UNCHANGED <<status, txRecords, committed, txs, toEngine, timerArmed,
                            enqueued>>
       /\ (last'.op = "IssueTx" /\ last'.err # "errBootstrapping") => bootstrapped
       /\ (~bootstrapped /\ bootstrapped') =>
             (last'.op = "SetState" /\ last'.ret = "NormalOp" /\ last'.err = "nil")
       /\ (~bootstrapped /\ last'.op = "SetState"
              /\ ~(last'.ret = "NormalOp" /\ last'.err = "nil")) => ~bootstrapped'
       /\ bootstrapped => bootstrapped']_vars

\* IssueTx of a valid transaction was refused on an initialized VM whose flag
\* is unset; nothing is stored or enqueued.
C26_Witness ==
    /\ last.op = "IssueTx"
    /\ last.err = "errBootstrapping"
    /\ last.b \in SmallGoodBytes
    /\ timerSet
    /\ ~bootstrapped
    /\ status = [t \in {} |-> "Unknown"]
    /\ enqueued = <<>>

(***************************************************************************)
(* Claims about parseTx and the database, checked under SpecStore.         *)
(***************************************************************************)
\* The status changes of the lifecycle.
Lifecycle ==
    {<<"Unknown", "Processing">>, <<"Processing", "Accepted">>,
     <<"Processing", "Rejected">>}

\* C11: when parseTx succeeds for a transaction whose status was Unknown, the
\* committed database holds the transaction's record with status Processing
\* when it returns; parseTx leaves the status of a Processing, Accepted or
\* Rejected transaction as it is; and a status only ever moves
\* Unknown -> Processing -> {Accepted, Rejected}.
C11_DurableProcessing ==
    [][/\ (/\ last'.op \in {"ParseTx", "IssueTx"}
           /\ last'.err \in {"nil", "errVerify"}
           /\ GetStatus(status, TxIDOf(last'.b)) = "Unknown")
          => /\ last'.id = TxIDOf(last'.b)
             /\ GetStatus(status', last'.id) = "Processing"
             /\ GetStatus(committed'.status, last'.id) = "Processing"
             /\ last'.id \in committed'.txRecords
       /\ (/\ last'.op \in {"ParseTx", "IssueTx"}
           /\ last'.b \in Bytes \ UndecodableBytes
           /\ GetStatus(status, TxIDOf(last'.b)) # "Unknown")
          => /\ status' = status
             /\ committed' = committed
       /\ \A t \in DOMAIN status \cup DOMAIN status' :
             \/ GetStatus(status', t) = GetStatus(status, t)
             \/ <<GetStatus(status, t), GetStatus(status', t)>> \in Lifecycle]_vars

C11_Witness ==
    /\ last.op = "IssueTx"
    /\ last.err = "nil"
    /\ last.writes = <<"PutTx", "PutStatus", "Commit">>
    /\ GetStatus(committed.status, last.id) = "Processing"
    /\ \E t \in DOMAIN status : t # last.id /\ status[t] = "Rejected"

\* C12: when decoding or the structural check fails, parseTx returns the error
\* without a storage call: the transaction records, the status table, the
\* committed database and vm.txs are as they were.
C12_FailFast ==
    [][(last'.op \in {"ParseTx", "IssueTx"} /\ last'.err \in {"errParse", "errSyntactic"})
          => /\ last'.b \in UndecodableBytes \cup BadSyntaxBytes
             /\ last'.writes = <<>>
             /\ txRecords' = txRecords
             /\ status' = status
             /\ committed' = committed
             /\ txs' = txs]_vars

C12_Witness ==
    /\ last.op = "IssueTx"
    /\ last.err = "errSyntactic"
    /\ txs # <<>>
    /\ committed.txRecords # {}
    /\ TxIDOf(last.b) \notin txRecords

(***************************************************************************)
(* Claims about the asset cache, checked under SpecFx.                     *)
(***************************************************************************)
\* Direct derivation: some declared state of the asset has FxIndex = fxID.
DeclaresFx(assetID, fxID) ==
    /\ IsCreateAssetTx(assetID)
    /\ \E i \in 1 .. Len(CreateAssetStates[assetID]) :
          CreateAssetStates[assetID][i].FxIndex = fxID

\* C1: for an asset whose creation transaction is known, verifyFxUsage returns
\* what the declared states say (true iff some state has FxIndex = fxID),
\* whether it answers from the cache or not.
C1_MatchesDeclaredStates ==
    (last.op = "verifyFxUsage" /\ Fetched(GetStatus(status, last.id)))
        => last.ret = <<DeclaresFx(last.id, last.b)>>

\* C17: a verifyFxUsage call for an asset whose creation transaction is not
\* fetched returns false and leaves the cache as it is, so the cache never holds
\* an entry for such an asset; and the call that finds the creation transaction
\* fetched and no entry in the cache returns what the declared states say.
C17_UnknownNotCached ==
    [][/\ (last'.op = "verifyFxUsage" /\ ~Fetched(GetStatus(status, last'.id))) =>
             /\ last'.ret = <<FALSE>>
             /\ last'.err = "miss"
             /\ assetToFxCache' = assetToFxCache
       /\ \A i \in 1 .. Len(assetToFxCache') :
             Fetched(GetStatus(status', assetToFxCache'[i].key))
       /\ (/\ last'.op = "verifyFxUsage"
           /\ Fetched(GetStatus(status, last'.id))
           /\ ~LRUHas(assetToFxCache, last'.id)) =>
             last'.ret = <<DeclaresFx(last'.id, last'.b)>>]_vars

C17_Witness ==
    /\ last.op = "verifyFxUsage"
    /\ ~Fetched(GetStatus(status, last.id))
    /\ last.ret = <<FALSE>>
    /\ DeclaresFx(last.id, last.b)
    /\ assetToFxCache # <<>>
    /\ ~LRUHas(assetToFxCache, last.id)

(***************************************************************************)
(* Claims about UTXO resolution and extension dispatch, checked under      *)
(* SpecVerify.  A verifyTransfer step records its input in last.ret.in,     *)
(* what getUTXO returned in last.ret.got and the extension calls in        *)
(* last.ret.calls; a verifyOperation step records the operation and what   *)
(* getUTXO returned for each of its UTXO IDs.                              *)
(***************************************************************************)
\* The source transaction of locator u verifies and is not decided.
UndecidedSource(u) ==
    /\ verifyWithoutCacheWrites(u[1], GetStatus(status, u[1]))
    /\ ~Decided(GetStatus(status, u[1]))

\* C13: getUTXO returns the UTXO from the state when it is there; otherwise,
\* if the source transaction verifies and is undecided, it returns the output
\* the source declares at the index, or errInvalidUTXO when the index is out of
\* range.  Resolving enqueues nothing and sends nothing to the engine.
C13_ResolveUTXO ==
    [][last'.op = "verifyTransfer" =>
          LET u == last'.ret.in.UTXOID
              g == last'.ret.got
          IN  /\ HasUTXO(status, u) =>
                    (g.err = "nil" /\ g.from = "state" /\ g.utxo.UTXOID = u)
              /\ (~HasUTXO(status, u) /\ UndecidedSource(u)) =>
                    IF u[2] < Len(DeclaredOutputs[u[1]])
                    THEN /\ g.err = "nil"
                         /\ g.from = "parent"
                         /\ g.utxo = [UTXOID |-> u,
                                      AssetID |-> DeclaredOutputs[u[1]][u[2] + 1],
                                      Out |-> <<"out", u[1], u[2]>>]
                    ELSE g.err = "errInvalidUTXO" /\ last'.err = "errInvalidUTXO"
              /\ txs' = txs
              /\ toEngine' = toEngine
              /\ timerArmed' = timerArmed
              /\ enqueued' = enqueued]_vars

C13_Witness ==
    /\ last.op = "verifyTransfer"
    /\ last.err = "nil"
    /\ last.ret.got.from = "parent"
    /\ last.ret.in.UTXOID = <<TxIDOf(5), 0>>
    /\ GetStatus(status, TxIDOf(5)) = "Processing"
    /\ GetStatus(status, TxIDOf(3)) = "Accepted"

\* C14: when the UTXO is not in the state and its source transaction is decided
\* (rejected, or accepted with the output consumed) or does not verify, getUTXO
\* returns errMissingUTXO, and the verification of the input or operation that
\* spends it fails without an extension being called.
C14_MissingUTXO ==
    [][/\ last'.op = "verifyTransfer" =>
             LET u == last'.ret.in.UTXOID IN
             (~HasUTXO(status, u) /\ ~UndecidedSource(u)) =>
                 /\ last'.ret.got.err = "errMissingUTXO"
                 /\ last'.err = "errMissingUTXO"
                 /\ last'.ret.calls = <<>>
       /\ last'.op = "verifyOperation" =>
             LET ids == last'.ret.in.UTXOIDs IN
             \A i \in 1 .. Len(ids) :
                 (~HasUTXO(status, ids[i]) /\ ~UndecidedSource(ids[i])) =>
                     /\ last'.ret.got[i].err = "errMissingUTXO"
                     /\ last'.err # "nil"
                     /\ last'.ret.calls = <<>>]_vars

C14_Witness ==
    /\ last.op = "verifyTransfer"
    /\ last.err = "errMissingUTXO"
    /\ last.ret.in.UTXOID = <<TxIDOf(3), 0>>
    /\ GetStatus(status, TxIDOf(3)) = "Accepted"
    /\ GetStatus(status, TxIDOf(5)) = "Accepted"

\* The kind resolving an extension for the step recorded in l, and the asset.
KindOf(l) == IF l.op = "verifyTransfer" THEN l.b ELSE l.ret.in.Op

AssetOf(l) == l.ret.in.AssetID

\* C15: an extension is called only if the kind resolved to a registered index
\* and the asset's creation transaction declares that index; a step with an
\* unregistered kind, or with an asset that does not declare the index, fails
\* without a call (with errUnknownFx, errIncompatibleFx when no earlier check
\* has failed).
C15_FxGate ==
    [][last'.op \in {"verifyTransfer", "verifyOperation"} =>
          LET l == last'
              k == KindOf(l)
              calls == l.ret.calls
          IN  /\ calls # <<>> =>
                    /\ Len(calls) = 1
                    /\ k \in DOMAIN typeToFxIndex
                    /\ calls[1].fx = typeToFxIndex[k]
                    /\ DeclaresFx(AssetOf(l), calls[1].fx)
                    /\ Fetched(GetStatus(status, AssetOf(l)))
              /\ k \notin DOMAIN typeToFxIndex =>
                    /\ l.err # "nil"
                    /\ calls = <<>>
                    /\ (l.op = "verifyTransfer" /\ l.ret.got.err = "nil")
                          => l.err = "errUnknownFx"
              /\ (k \in DOMAIN typeToFxIndex
                      /\ ~DeclaresFx(AssetOf(l), typeToFxIndex[k])) =>
                    /\ l.err # "nil"
                    /\ calls = <<>>
                    /\ (/\ l.op = "verifyTransfer"
                        /\ l.ret.got.err = "nil"
                        /\ l.ret.got.utxo.AssetID = AssetOf(l))
                          => l.err = "errIncompatibleFx"
                    /\ (/\ l.op = "verifyOperation"
                        /\ \A i \in 1 .. Len(l.ret.got) :
                              /\ l.ret.got[i].err = "nil"
                              /\ l.ret.got[i].utxo.AssetID = AssetOf(l))
                          => l.err = "errIncompatibleFx"]_vars

C15_Witness ==
    /\ last.op = "verifyTransfer"
    /\ last.err = "errIncompatibleFx"
    /\ last.b = 1
    /\ AssetOf(last) = TxIDOf(3)
    /\ Fetched(GetStatus(status, TxIDOf(3)))

\* C16: verifyOperation resolves the operation's UTXOs; if all resolve and some
\* UTXO's asset differs from the operation's, it fails with errAssetIDMismatch;
\* when the extension is called it is called once, with the outputs of all the
\* consumed UTXOs in the order of the operation's UTXO IDs, each UTXO having
\* resolved to the operation's asset.
C16_OperationAssets ==
    [][last'.op = "verifyOperation" =>
          LET op == last'.ret.in
              got == last'.ret.got
              calls == last'.ret.calls
              n == Len(op.UTXOIDs)
          IN  /\ ((\A i \in 1 .. n : got[i].err = "nil")
                    /\ (\E i \in 1 .. n : got[i].utxo.AssetID # op.AssetID))
                    => last'.err = "errAssetIDMismatch"
              /\ last'.err = "nil" => calls # <<>>
              /\ calls # <<>> =>
                    /\ Len(calls) = 1
                    /\ calls[1].method = "VerifyOperation"
                    /\ calls[1].cred = last'.b
                    /\ Len(calls[1].utxos) = n
                    /\ \A i \in 1 .. n :
                          /\ got[i].err = "nil"
                          /\ got[i].utxo.UTXOID = op.UTXOIDs[i]
                          /\ got[i].utxo.AssetID = op.AssetID
                          /\ calls[1].utxos[i] = <<"out", op.UTXOIDs[i][1], op.UTXOIDs[i][2]>>]_vars

C16_Witness ==
    /\ last.op = "verifyOperation"
    /\ last.err = "nil"
    /\ last.ret.in.UTXOIDs = <<<<TxIDOf(3), 1>>, <<TxIDOf(3), 0>>>>
    /\ last.ret.calls[1].utxos = <<<<"out", TxIDOf(3), 1>>, <<"out", TxIDOf(3), 0>>>>

(***************************************************************************)
(* Claims about coin selection, checked under SpecCoin.                    *)
(***************************************************************************)

\* The summed amount of the inputs of asset a.
RECURSIVE SumAmt(_, _)
SumAmt(ins, a) ==
    IF ins = <<>> THEN 0
    ELSE (IF Head(ins).AssetID = a THEN Head(ins).In.Amt ELSE 0) + SumAmt(Tail(ins), a)

\* A Spend that met every request: the inputs of each asset sum to the
\* returned amountsSpent entry, which is at least the amount requested.
SpendMeets(g, o) ==
    /\ o.err = "nil"
    /\ Len(o.keys) = Len(o.ins)
    /\ \A a \in DOMAIN g.amounts :
          /\ SumAmt(o.ins, a) = o.amountsSpent[a]
          /\ o.amountsSpent[a] >= g.amounts[a]

\* A Spend that failed with err and returned nothing.
SpendFails(o, err) ==
    /\ o.err = err
    /\ o.amountsSpent = Nil
    /\ o.ins = Nil
    /\ o.keys = Nil

\* C18 as stated: every Spend either returns inputs whose per-asset sum
\* (equal to amountsSpent) is at least every requested amount, or fails with
\* the insufficient-funds error and returns no amounts, inputs or signers.
C18_MeetsOrInsufficient ==
    [][last'.op = "Spend" =>
          \/ SpendMeets(last'.ret.given, last'.ret.out)
          \/ SpendFails(last'.ret.out, "insufficient funds")]_vars

\* C18 amended: every Spend either meets every request, or fails and returns
\* no amounts, inputs or signers; the failure is the insufficient-funds error
\* naming a requested asset that the selected inputs leave short, or
\* errSpendOverflow when adding a selected input's amount overflows.  A
\* partial allocation is never returned as success.
C18_NoPartialAllocation ==
    [][last'.op = "Spend" =>
          LET g == last'.ret.given
              o == last'.ret.out
          IN  \/ SpendMeets(g, o)
              \/ /\ SpendFails(o, "insufficient funds")
                 /\ o.msg[2] \in DOMAIN g.amounts
                 /\ o.msg[1] = g.amounts[o.msg[2]]
                 /\ o.msg[3] < o.msg[1]
              \/ SpendFails(o, "errSpendOverflow")]_vars

\* A Spend that selected two inputs and met the request.
C18_Witness ==
    /\ last.op = "Spend"
    /\ last.err = "nil"
    /\ Len(last.ret.out.ins) = 2
    /\ \E a \in CoinAssets : last.ret.given.amounts[a] > 0

\* What a coin selection call returned: error, inputs or operations, signers.
Outcome(o) ==
    <<o.err, IF "ins" \in DOMAIN o THEN o.ins ELSE o.ops, o.keys>>

\* C19 as stated: two successive calls of the same coin selection function
\* with the caller's same UTXO list, keychain, amounts map, asset, group and
\* recipient return identical ordered results and the same error outcome.
C19_Deterministic ==
    [][(last.op \in CoinOps /\ last'.op = last.op) =>
          Outcome(last'.ret.out) = Outcome(last.ret.out)]_vars

\* The keychain of request g can spend a MintOutput of asset a in its list.
CanMint(g, a) ==
    \E i \in 1 .. Len(g.utxos) :
       /\ g.utxos[i].AssetID = a
       /\ g.utxos[i].Out.kind = "secp256k1fx.MintOutput"
       /\ ~kcSpend(g.kc, g.utxos[i].Out).err

\* C20: Mint fails with errAddressesCantMintAsset and returns no operations
\* whenever an asset with a positive requested amount has no MintOutput the
\* keychain can spend; on success it returns exactly one mint operation per
\* asset with a positive requested amount, minting that amount to the
\* recipient.
C20_MintAllOrNothing ==
    [][last'.op = "Mint" =>
          LET g == last'.ret.given
              o == last'.ret.out
          IN  /\ (\E a \in DOMAIN g.amounts : g.amounts[a] > 0 /\ ~CanMint(g, a)) =>
                    /\ o.err = "errAddressesCantMintAsset"
                    /\ o.ops = Nil
                    /\ o.keys = Nil
              /\ o.err = "nil" =>
                    /\ Len(o.keys) = Len(o.ops)
                    /\ \A a \in DOMAIN g.amounts :
                          Cardinality({i \in 1 .. Len(o.ops) : o.ops[i].Asset = a})
                             = IF g.amounts[a] > 0 THEN 1 ELSE 0
                    /\ \A i \in 1 .. Len(o.ops) :
                          /\ o.ops[i].Op.kind = "secp256k1fx.MintOperation"
                          /\ o.ops[i].Op.TransferOutput.Amt = g.amounts[o.ops[i].Asset]
                          /\ o.ops[i].Op.TransferOutput.Addrs = <<g.to>>]_vars

\* A Mint that succeeded with one operation although the keychain can spend
\* two MintOutputs of the requested asset.
C20_Witness ==
    /\ last.op = "Mint"
    /\ last.err = "nil"
    /\ Len(last.ret.out.ops) = 1
    /\ Cardinality({i \in 1 .. Len(last.ret.given.utxos) :
                       /\ last.ret.given.utxos[i].Out.kind = "secp256k1fx.MintOutput"
                       /\ ~kcSpend(last.ret.given.kc, last.ret.given.utxos[i].Out).err}) = 2

\* C22: on success Spend and SpendAll return the inputs in strictly
\* increasing order of UTXO locator (so each selected UTXO once), with as many
\* signer sets as inputs, and for every position the input and the signer set
\* are those the keychain produced for the UTXO of the list that the input
\* consumes.
C22_SortedWithSigners ==
    [][(last'.op \in {"Spend", "SpendAll"} /\ last'.err = "nil") =>
          LET g == last'.ret.given
              o == last'.ret.out
          IN  /\ Len(o.keys) = Len(o.ins)
              /\ \A i, j \in 1 .. Len(o.ins) :
                    i < j => LocLess(o.ins[i].UTXOID, o.ins[j].UTXOID)
              /\ \A i \in 1 .. Len(o.ins) :
                    \E k \in 1 .. Len(g.utxos) :
                       /\ g.utxos[k].UTXOID = o.ins[i].UTXOID
                       /\ g.utxos[k].AssetID = o.ins[i].AssetID
                       /\ ~kcSpend(g.kc, g.utxos[k].Out).err
                       /\ o.ins[i].In = kcSpend(g.kc, g.utxos[k].Out).in
                       /\ o.keys[i] = kcSpend(g.kc, g.utxos[k].Out).signers]_vars

\* A Spend that selected two UTXOs with different signers in the order
\* opposite to that of their locators.
C22_Witness ==
    /\ last.op = "Spend"
    /\ last.err = "nil"
    /\ Len(last.ret.out.ins) = 2
    /\ last.ret.given.utxos[1].UTXOID = last.ret.out.ins[2].UTXOID
    /\ last.ret.out.keys[1] # last.ret.out.keys[2]

\* Positions of the UTXOs of request g that SpendNFT can use.
SpendNFTMatches(g) ==
    {i \in 1 .. Len(g.utxos) :
        /\ g.utxos[i].AssetID = g.assetID
        /\ g.utxos[i].Out.kind = "nftfx.TransferOutput"
        /\ g.utxos[i].Out.GroupID = g.groupID
        /\ kcMatch(g.kc, g.utxos[i].Out).ok}

\* Positions of the UTXOs of request g that MintNFT can use.
MintNFTMatches(g) ==
    {i \in 1 .. Len(g.utxos) :
        /\ g.utxos[i].AssetID = g.assetID
        /\ g.utxos[i].Out.kind = "nftfx.MintOutput"
        /\ kcMatch(g.kc, g.utxos[i].Out).ok}

\* Result o is one operation on the first UTXO of g at a position of matches,
\* with that UTXO's signers; or, without a match, the error err and nothing.
FirstMatchOnly(g, o, matches, err) ==
    IF matches = {}
    THEN o.err = err /\ o.ops = Nil /\ o.keys = Nil
    ELSE LET first == CHOOSE i \in matches : \A j \in matches : i <= j IN
         /\ o.err = "nil"
         /\ Len(o.ops) = 1
         /\ Len(o.keys) = 1
         /\ o.ops[1].UTXOIDs = <<g.utxos[first].UTXOID>>
         /\ o.ops[1].Asset = g.assetID
         /\ o.keys[1] = kcMatch(g.kc, g.utxos[first].Out).signers

\* C23: SpendNFT and MintNFT return, on success, exactly one operation, on the
\* first UTXO in scan order that has the asset and the output kind (and the
\* group, for SpendNFT) and that the keychain matches, with exactly one signer
\* set; without such a UTXO SpendNFT fails with errInsufficientFunds and
\* MintNFT with errAddressesCantMintAsset.
C23_FirstMatchOnly ==
    [][/\ last'.op = "SpendNFT" =>
             /\ FirstMatchOnly(last'.ret.given, last'.ret.out,
                               SpendNFTMatches(last'.ret.given), "errInsufficientFunds")
             /\ last'.err = "nil" =>
                   /\ last'.ret.out.ops[1].Op.kind = "nftfx.TransferOperation"
                   /\ last'.ret.out.ops[1].Op.Output.Addrs = <<last'.ret.given.to>>
       /\ last'.op = "MintNFT" =>
             /\ FirstMatchOnly(last'.ret.given, last'.ret.out,
                               MintNFTMatches(last'.ret.given), "errAddressesCantMintAsset")
             /\ last'.err = "nil" =>
                   /\ last'.ret.out.ops[1].Op.kind = "nftfx.MintOperation"
                   /\ last'.ret.out.ops[1].Op.Payload = last'.ret.given.payload]_vars

\* A SpendNFT over two usable UTXOs, listed against the order of their
\* locators, that returned one operation.
C23_Witness ==
    /\ last.op = "SpendNFT"
    /\ last.err = "nil"
    /\ Cardinality(SpendNFTMatches(last.ret.given)) = 2
    /\ LocLess(last.ret.given.utxos[2].UTXOID, last.ret.given.utxos[1].UTXOID)
    /\ Len(last.ret.out.ops) = 1

\* The UTXOs of asset a in the list of request g that the keychain can spend
\* as transfer inputs, in scan order.
SpendableOf(g, a) ==
    SelectSeq(g.utxos,
              LAMBDA u : /\ u.AssetID = a
                         /\ ~kcSpend(g.kc, u.Out).err
                         /\ kcSpend(g.kc, u.Out).in.kind = "secp256k1fx.TransferInput")

\* The exact sum of the amounts of the first n UTXOs of seq.
RECURSIVE SumFirst(_, _)
SumFirst(seq, n) ==
    IF n = 0 THEN 0 ELSE seq[n].Out.Amt + SumFirst(seq, n - 1)

\* The locators of the inputs of asset a.
InputsOf(ins, a) ==
    {ins[i].UTXOID : i \in {j \in 1 .. Len(ins) : ins[j].AssetID = a}}

\* C24: Spend and SpendAll add up the spent amount of each asset with an
\* addition that fails beyond the largest amount: the call fails with
\* errSpendOverflow, returning nothing, exactly when adding the amount of a
\* UTXO it selects would exceed the largest amount; in a successful result
\* every amountsSpent entry is the exact sum of the selected inputs of the
\* asset; and Spend selects a spendable UTXO of an asset exactly while the
\* amount accumulated for the asset is below the request.
C24_CheckedSums ==
    [][/\ last'.op = "Spend" =>
             LET g == last'.ret.given
                 o == last'.ret.out
             IN  /\ o.err = "errSpendOverflow" <=>
                       \E a \in CoinAssets : \E j \in 1 .. Len(SpendableOf(g, a)) :
                          /\ SumFirst(SpendableOf(g, a), j - 1) < g.amounts[a]
                          /\ SumFirst(SpendableOf(g, a), j) > MaxAmount
                 /\ o.err = "errSpendOverflow" => SpendFails(o, "errSpendOverflow")
                 /\ o.err = "nil" =>
                       \A a \in CoinAssets :
                          /\ o.amountsSpent[a] = SumAmt(o.ins, a)
                          /\ o.amountsSpent[a] <= MaxAmount
                          /\ InputsOf(o.ins, a) =
                                {SpendableOf(g, a)[j].UTXOID :
                                    j \in {k \in 1 .. Len(SpendableOf(g, a)) :
                                              SumFirst(SpendableOf(g, a), k - 1) < g.amounts[a]}}
       /\ last'.op = "SpendAll" =>
             LET g == last'.ret.given
                 o == last'.ret.out
             IN  /\ o.err = "errSpendOverflow" <=>
                       \E a \in CoinAssets :
                          SumFirst(SpendableOf(g, a), Len(SpendableOf(g, a))) > MaxAmount
                 /\ o.err = "errSpendOverflow" => SpendFails(o, "errSpendOverflow")
                 /\ o.err # "errSpendOverflow" =>
                       /\ o.err = "nil"
                       /\ \A a \in CoinAssets :
                             /\ o.amountsSpent[a] = SumAmt(o.ins, a)
                             /\ o.amountsSpent[a] <= MaxAmount
                             /\ InputsOf(o.ins, a) =
                                   {SpendableOf(g, a)[j].UTXOID :
                                       j \in 1 .. Len(SpendableOf(g, a))}]_vars

\* A Spend that failed with errSpendOverflow although the request is met by
\* one of the two spendable UTXOs alone.
C24_Witness ==
    /\ last.op = "Spend"
    /\ last.err = "errSpendOverflow"
    /\ last.ret.given.amounts[AssetA] < MaxAmount
    /\ Len(SpendableOf(last.ret.given, AssetA)) = 2

(***************************************************************************)
(* Claims about the scheduler's progress, checked under SpecLive.          *)
(***************************************************************************)
\* C25 as stated: whenever vm.txs is not empty, the timeout is armed or a
\* PendingTxs message has been sent to the channel since the last PendingTxs.
C25_ArmedOrSignalled ==
    txs # <<>> => (timerArmed \/ signalled)

\* Something stands for the pending transactions: the timeout is armed, or it
\* has fired and its callback has yet to run FlushTxs, or a PendingTxs message
\* sent since the last PendingTxs is in the channel or with the engine.
Covered ==
    \/ timerArmed
    \/ cbpc # "idle"
    \/ signalled /\ (toEngine # <<>> \/ owed)

\* C25, amended: whenever vm.txs is not empty, the timeout is armed, or it has
\* fired and its callback has not yet run FlushTxs, or a PendingTxs message has
\* been sent since the last PendingTxs; and under the scheduling of SpecLive
\* every enqueued transaction is eventually returned by PendingTxs.
C25_NoStranding ==
    /\ [](txs # <<>> => Covered)
    /\ (txs # <<>>) ~> (txs = <<>> /\ pulled = enqueued)

\* The timeout has fired and the message reached the engine, which has yet to
\* call PendingTxs; more transactions were enqueued meanwhile.
C25_Witness ==
    /\ Len(txs) > 1
    /\ ~timerArmed
    /\ cbpc = "idle"
    /\ signalled
    /\ toEngine = <<>>
    /\ owed

=============================================================================
